---- MODULE Spec2Model ----
(***************************************************************************)
(* A model of the Keccak / SHA-3 sponge hash gadget of snarkVM             *)
(* (circuit/algorithms/src/keccak/hash.rs).  One invocation of             *)
(* Keccak::hash is a run of the state machine below: the entry checks and  *)
(* the padding (Call), one XOR per padded block (AbsorbXor), the rounds of *)
(* permutation_f (Round, PermutationReturn), the squeeze loop              *)
(* (SqueezeInit, SqueezePermute, SqueezeExtend) and the truncation         *)
(* (Return).                                                               *)
(*                                                                         *)
(* A bit is a wire Boolean<E>: a value in {0, 1} tagged with a mode.       *)
(* usize values are written as integers; a value that wrapped below zero   *)
(* in a release build is written as its negative two's-complement          *)
(* representative (-8 stands for 2^64 - 8).                                *)
(***************************************************************************)
EXTENDS Integers, Sequences, FiniteSets, TLC

VARIABLES
  debug,          \* the build has debug assertions and overflow checks
  TYPE,           \* const generic TYPE of the hasher: 0 Keccak, 1 SHA3
  VARIANT,        \* const generic VARIANT of the hasher: output bits
  input,          \* the argument of the current call
  pc,             \* position in Keccak::hash
  bitrate,        \* local `bitrate`
  s,              \* local `s`, the sponge state
  padded_blocks,  \* the blocks the absorb loop has not consumed yet
  a,              \* local `a` of permutation_f: 25 lanes
  round_index,    \* how many round constants permutation_f has consumed
  ret,            \* where the running permutation_f call returns to
  z,              \* local `z`, the squeeze accumulator
  output,         \* the value hash returned
  perms,          \* number of permutation_f calls of the current call
  scope,          \* what the circuit counted during the current call
  prev            \* summary of the previous call of the same process

kvars == <<debug, TYPE, VARIANT, input, pc, bitrate, s, padded_blocks, a,
           round_index, ret, z, output, perms, scope, prev>>

\* Keccak::pad_keccak and Keccak::pad_sha3, statement by statement.
VARIABLES
  pad_pc,         \* position in the padding function
  pad_type,       \* 0 pad_keccak, 1 pad_sha3
  pad_bitrate,    \* argument `bitrate`
  pad_input,      \* argument `input`
  padded_input,   \* local `padded_input`
  fills,          \* iterations of the fill loop so far
  result          \* local `result`, the blocks returned

pvars == <<pad_pc, pad_type, pad_bitrate, pad_input, padded_input, fills, result>>

\* InputMemory, the in-memory transition input store.
VARIABLES
  id_map,               \* transition ID -> input IDs
  reverse_id_map,       \* input ID -> transition ID
  constant_map,         \* plaintext hash -> (optional) plaintext
  public_map,           \* plaintext hash -> (optional) plaintext
  private_map,          \* ciphertext hash -> (optional) ciphertext
  record_map,           \* serial number -> (tag, origin)
  record_tag_map,       \* tag -> serial number
  external_record_map,  \* external commitment -> ()
  last,                 \* the last operation on the store, with what it returned
  inserted,             \* the inputs given to the insert each stored transition ID was put by
  replaced,             \* the input IDs of the lists that an insert has replaced
  writes                \* the inputs inserted so far

svars == <<id_map, reverse_id_map, constant_map, public_map, private_map, record_map,
           record_tag_map, external_record_map, last, inserted, replaced, writes>>

\* Field::from_bits_le / from_bits_be and the comparisons of Scalar.
VARIABLES
  field_call,     \* the last call of from_bits_le or from_bits_be
  field_ret,      \* what it returned and did to the circuit
  scalar_call,    \* the last comparison of two scalars
  scalar_ret      \* what it returned and did to the circuit

fvars == <<field_call, field_ret>>
cvars == <<scalar_call, scalar_ret>>

\* Keccak::permutation_f and Keccak::round, statement by statement, and
\* Keccak::rotate_left.
VARIABLES
  f_pc,           \* position in permutation_f and in round
  f_input,        \* argument `input` of permutation_f
  f_round,        \* how many round constants the loop has consumed
  f_a,            \* `a`: the lanes handed to the current round
  f_c,            \* local `c` of round
  f_d,            \* local `d` of round
  f_a_1,          \* local `a_1` of round
  f_a_2,          \* local `a_2` of round
  f_a_3,          \* local `a_3` of round, before and after the last statement
  f_output,       \* what permutation_f returned
  rot_call,       \* the last call of rotate_left: value and n
  rot_ret         \* what it returned

rvars == <<f_pc, f_input, f_round, f_a, f_c, f_d, f_a_1, f_a_2, f_a_3, f_output,
           rot_call, rot_ret>>

vars == <<kvars, pvars, svars, fvars, cvars, rvars>>

\* Nothing but the hash gadget is in use.
PadIdle ==
  /\ pad_pc = "idle" /\ pad_type = 0 /\ pad_bitrate = 0 /\ pad_input = <<>>
  /\ padded_input = <<>> /\ fills = 0 /\ result = <<>>

StoreIdle ==
  /\ id_map = <<>> /\ reverse_id_map = <<>> /\ constant_map = <<>> /\ public_map = <<>>
  /\ private_map = <<>> /\ record_map = <<>> /\ record_tag_map = <<>>
  /\ external_record_map = <<>> /\ inserted = <<>> /\ replaced = {} /\ writes = 0
  /\ last = [op |-> "open", t |-> "", id |-> 0, inputs |-> <<>>, ret |-> <<>>, held |-> {},
             before |-> <<>>]

FieldIdle ==
  /\ field_call = [fn |-> "none", bits |-> <<>>]
  /\ field_ret = [halted |-> FALSE, satisfied |-> TRUE, value |-> 0, bits_le |-> <<>>,
                  num_private |-> 0, num_constraints |-> 0]

PermutationIdle ==
  /\ f_pc = "idle" /\ f_input = <<>> /\ f_round = 0 /\ f_a = <<>> /\ f_c = <<>> /\ f_d = <<>>
  /\ f_a_1 = <<>> /\ f_a_2 = <<>> /\ f_a_3 = <<>> /\ f_output = <<>>
  /\ rot_call = [value |-> <<>>, n |-> 0] /\ rot_ret = <<>>

ScalarIdle ==
  /\ scalar_call = [fn |-> "none", a |-> 0, b |-> 0, mode_a |-> 0, mode_b |-> 0]
  /\ scalar_ret = [halted |-> FALSE, wire |-> 0, num_constants |-> 0, num_private |-> 0,
                   num_constraints |-> 0]

----------------------------------------------------------------------------
(* Bounds of the model.                                                    *)

\* Every private input of MaxLen bits is enumerated.
MaxLen == 2
\* Inputs of 1..MaxTagLen bits are enumerated with every constant/variable tagging.
MaxTagLen == 2

----------------------------------------------------------------------------
(* Program constants (keccak/mod.rs).                                      *)

MODULO == 5
PERMUTATION_WIDTH == 1600
NUM_ROUNDS == 24

\* Modes of a wire.
Constant == 0
Public == 1
Private == 2

----------------------------------------------------------------------------
(* Sequences, 0-based as in the source.                                    *)

\* Iterator::collect: the sequence with every element computed.
Collect(f) == f \o <<>>

At(seq, i) == seq[i + 1]

Min(m, n) == IF m <= n THEN m ELSE n

\* slice.iter().take(n)
Take(seq, n) == SubSeq(seq, 1, Min(n, Len(seq)))

\* slice.chunks(n): consecutive chunks of n elements, the last one possibly shorter.
chunks(seq, n) ==
  Collect([i \in 1..((Len(seq) + n - 1) \div n) |->
             SubSeq(seq, (i - 1) * n + 1, Min(i * n, Len(seq)))])

\* flat_map over 25 lanes of 64 bits.
Flatten(lanes) ==
  Collect([k \in 1..(64 * Len(lanes)) |-> lanes[((k - 1) \div 64) + 1][((k - 1) % 64) + 1]])

RECURSIVE SumSeq(_)
SumSeq(seq) == IF seq = <<>> THEN 0 ELSE Head(seq) + SumSeq(Tail(seq))

----------------------------------------------------------------------------
(* Boolean<E>: a wire is 2 * mode + value.                                 *)

Boolean_new(mode, value) == 2 * mode + value
Boolean_constant(value) == Boolean_new(Constant, value)
eject_value(w) == w % 2
eject_mode(w) == w \div 2
is_constant(w) == eject_mode(w) = Constant

Wires == 0..5

\* !w: 1 - w as a linear combination, no constraint.
not_gate(w) == Boolean_new(eject_mode(w), 1 - eject_value(w))

\* p ^ q: a constant operand folds (q or !q); two variables allocate one
\* private variable and one constraint.
xor_gate(p, q) ==
  IF is_constant(p) THEN (IF eject_value(p) = 1 THEN not_gate(q) ELSE q)
  ELSE IF is_constant(q) THEN (IF eject_value(q) = 1 THEN not_gate(p) ELSE p)
  ELSE Boolean_new(Private, (eject_value(p) + eject_value(q)) % 2)

\* p & q: a constant operand folds (the other operand, or constant false);
\* two variables allocate one private variable and one constraint.
and_gate(p, q) ==
  IF is_constant(p) THEN (IF eject_value(p) = 1 THEN q ELSE p)
  ELSE IF is_constant(q) THEN (IF eject_value(q) = 1 THEN p ELSE q)
  ELSE Boolean_new(Private, eject_value(p) * eject_value(q))

\* The binary gates allocate exactly when neither operand is a constant.
allocates(p, q) == ~is_constant(p) /\ ~is_constant(q)

\* The gates, tabulated over the six wires.
NotTable == Collect([p \in 1..6 |-> not_gate(p - 1)])
XorTable == Collect([p \in 1..6 |-> Collect([q \in 1..6 |-> xor_gate(p - 1, q - 1)])])
AndTable == Collect([p \in 1..6 |-> Collect([q \in 1..6 |-> and_gate(p - 1, q - 1)])])
AllocatesTable ==
  Collect([p \in 1..6 |-> Collect([q \in 1..6 |-> IF allocates(p - 1, q - 1) THEN 1 ELSE 0])])

Not(w) == NotTable[w + 1]
Xor(p, q) == XorTable[p + 1][q + 1]
And(p, q) == AndTable[p + 1][q + 1]
Allocates(p, q) == AllocatesTable[p + 1][q + 1] = 1

\* U64<E>: 64 wires, little-endian; ^, & and ! act bit by bit.
U64_xor(u, v) == Collect([k \in 1..64 |-> Xor(u[k], v[k])])
U64_and(u, v) == Collect([k \in 1..64 |-> And(u[k], v[k])])
U64_not(u) == Collect([k \in 1..64 |-> Not(u[k])])
U64_allocations(u, v) == Cardinality({k \in 1..64 : AllocatesTable[u[k] + 1][v[k] + 1] = 1})

Values(wires) == Collect([k \in 1..Len(wires) |-> eject_value(wires[k])])
Modes(wires) == Collect([k \in 1..Len(wires) |-> eject_mode(wires[k])])
AllConstant(wires) == \A k \in 1..Len(wires) : is_constant(wires[k])

----------------------------------------------------------------------------
(* The tables the hasher is constructed with.                              *)

\* The set bits of the 24 round constants of keccak-f[1600].
ROUND_CONSTANT_BITS ==
  << {0},
     {1, 7, 15},
     {1, 3, 7, 15, 63},
     {15, 31, 63},
     {0, 1, 3, 7, 15},
     {0, 31},
     {0, 7, 15, 31, 63},
     {0, 3, 15, 63},
     {1, 3, 7},
     {3, 7},
     {0, 3, 15, 31},
     {1, 3, 31},
     {0, 1, 3, 7, 15, 31},
     {0, 1, 3, 7, 63},
     {0, 3, 7, 15, 63},
     {0, 1, 15, 63},
     {1, 15, 63},
     {7, 63},
     {1, 3, 15},
     {1, 3, 31, 63},
     {0, 7, 15, 31, 63},
     {7, 15, 63},
     {0, 31},
     {3, 15, 31, 63} >>

\* self.round_constants: constant U64 lanes.
round_constants ==
  Collect([i \in 1..NUM_ROUNDS |->
    Collect([k \in 1..64 |->
      Boolean_constant(IF (k - 1) \in ROUND_CONSTANT_BITS[i] THEN 1 ELSE 0)])])

\* The rho offsets of keccak-f[1600], indexed by x + 5y.
RHO_OFFSETS ==
  << 0, 1, 62, 28, 27, 36, 44, 6, 55, 20, 3, 10, 43, 25, 39, 41, 45, 15, 21, 8, 18, 2, 61, 56, 14 >>

\* self.rotl, the amounts handed to rotate_left.  rotate_left(value, n) moves
\* bit i + n to bit i (see below), so a rotation by the rho offset toward the
\* most significant bit is the amount 64 - offset, as the theta step's 63 is
\* for a rotation by 1.
rotl == Collect([k \in 1..(MODULO * MODULO) |-> (64 - RHO_OFFSETS[k]) % 64])

----------------------------------------------------------------------------
(* Keccak::rotate_left and Keccak::round.                                  *)

\* bits_le.iter().skip(n).chain(bits_le.iter()).take(64)
\* (A variant that rotates toward the high end: bit i goes to bit i + n.)
rotate_left_up(value, n) == Take(SubSeq(value, (64 - n) + 1, Len(value)) \o value, 64)

\* (A variant that shifts without wrapping: the bits skipped are replaced by
\* constant zeros.)
rotate_left_shift(value, n) ==
  Take(SubSeq(value, n + 1, Len(value)) \o [k \in 1..64 |-> Boolean_constant(0)], 64)

rotate_left(value, n) == Take(SubSeq(value, n + 1, Len(value)) \o value, 64)

\* theta, first part: the partial results of
\* &a[x] ^ &a[x + 5] ^ &a[x + 10] ^ &a[x + 15] ^ &a[x + 20], the last one is C[x].
theta_c_chain(A, x) ==
  LET t1 == U64_xor(At(A, x), At(A, x + MODULO))
      t2 == U64_xor(t1, At(A, x + (2 * MODULO)))
      t3 == U64_xor(t2, At(A, x + (3 * MODULO)))
  IN <<t1, t2, t3, U64_xor(t3, At(A, x + (4 * MODULO)))>>

theta_c(A) == Collect([x1 \in 1..MODULO |-> theta_c_chain(A, x1 - 1)[4]])

\* (A variant that hands 1 to rotate_left.)
theta_d_one(c) ==
  Collect([x1 \in 1..MODULO |->
    U64_xor(At(c, ((x1 - 1) + 4) % MODULO), rotate_left(At(c, ((x1 - 1) + 1) % MODULO), 1))])

\* theta, second part: D[x] = C[x-1] ^ ROT(C[x+1], 1).
theta_d(c) ==
  Collect([x1 \in 1..MODULO |->
    LET x == x1 - 1
        rotated == rotate_left(At(c, (x + 1) % MODULO), 63)
    IN U64_xor(At(c, (x + 4) % MODULO), rotated)])

\* theta, second part: a_1[x + 5y] = a[x + 5y] ^ D[x], pushed for y, then x.
theta_a(A, d) ==
  Collect([k \in 1..(MODULO * MODULO) |-> LET x == (k - 1) % MODULO  y == (k - 1) \div MODULO IN
    U64_xor(At(A, x + (y * MODULO)), At(d, x))])

\* rho and pi: a_2 starts as a copy of a_1; the loop body for (y, x), in the
\* order of the loops, writes one lane of a_2.
RECURSIVE rho_pi_from(_, _, _, _)
rho_pi_from(a_2, a_1, offsets, i) ==
  IF i = MODULO * MODULO THEN a_2
  ELSE LET x == i % MODULO
           y == i \div MODULO
       IN rho_pi_from(
            [a_2 EXCEPT ![(y + ((((2 * x) + (3 * y)) % MODULO) * MODULO)) + 1] =
               rotate_left(At(a_1, x + (y * MODULO)), At(offsets, x + (y * MODULO)))],
            a_1, offsets, i + 1)

\* (A variant that rotates the lanes where they are.)
rho_pi_unmoved(a_1, offsets) ==
  Collect([k \in 1..(MODULO * MODULO) |-> rotate_left(a_1[k], offsets[k])])

rho_pi(a_1, offsets) == rho_pi_from(a_1, a_1, offsets, 0)

\* (A variant that updates the lanes in place, so that the lanes at x + 1
\* and x + 2 may be read after they were updated.)
RECURSIVE chi_in_place_from(_, _)
chi_in_place_from(lanes, i) ==
  IF i = MODULO * MODULO THEN lanes
  ELSE LET x == i % MODULO
           y == i \div MODULO
           n == U64_not(At(lanes, ((x + 1) % MODULO) + (y * MODULO)))
           nm == U64_and(n, At(lanes, ((x + 2) % MODULO) + (y * MODULO)))
       IN chi_in_place_from([lanes EXCEPT ![i + 1] = U64_xor(lanes[i + 1], nm)], i + 1)

chi_in_place(a_2) == chi_in_place_from(a_2, 0)

\* chi: a_3[x + 5y] = a_2[x,y] ^ ((!a_2[x+1,y]) & a_2[x+2,y]).
chi(a_2) ==
  Collect([k \in 1..(MODULO * MODULO) |-> LET x == (k - 1) % MODULO  y == (k - 1) \div MODULO IN
    LET n == U64_not(At(a_2, ((x + 1) % MODULO) + (y * MODULO)))
        nm == U64_and(n, At(a_2, ((x + 2) % MODULO) + (y * MODULO)))
    IN U64_xor(At(a_2, x + (y * MODULO)), nm)])

\* iota: a_3[0] = a_3[0] ^ round_constant.
iota(a_3, round_constant) == [a_3 EXCEPT ![1] = U64_xor(a_3[1], round_constant)]

\* What one round allocates: one private variable and one constraint for
\* each ^ and & of two non-constant bits.
theta_c_allocations(A) ==
  SumSeq(Collect([x1 \in 1..MODULO |->
    LET x == x1 - 1
        t == theta_c_chain(A, x)
        t1 == t[1]
        t2 == t[2]
        t3 == t[3]
    IN U64_allocations(At(A, x), At(A, x + MODULO))
       + U64_allocations(t1, At(A, x + (2 * MODULO)))
       + U64_allocations(t2, At(A, x + (3 * MODULO)))
       + U64_allocations(t3, At(A, x + (4 * MODULO)))]))

theta_d_allocations(c) ==
  SumSeq(Collect([x1 \in 1..MODULO |->
    LET x == x1 - 1
        rotated == rotate_left(At(c, (x + 1) % MODULO), 63)
    IN U64_allocations(At(c, (x + 4) % MODULO), rotated)]))

theta_a_allocations(A, d) ==
  SumSeq(Collect([k \in 1..(MODULO * MODULO) |-> U64_allocations(A[k], At(d, (k - 1) % MODULO))]))

chi_allocations(a_2) ==
  SumSeq(Collect([k \in 1..(MODULO * MODULO) |->
    LET x == (k - 1) % MODULO
        y == (k - 1) \div MODULO
        n == U64_not(At(a_2, ((x + 1) % MODULO) + (y * MODULO)))
        m == At(a_2, ((x + 2) % MODULO) + (y * MODULO))
        nm == U64_and(n, m)
        l == At(a_2, x + (y * MODULO))
    IN U64_allocations(n, m) + U64_allocations(l, nm)]))

\* R = iota . chi . pi . rho . theta: the lanes the round returns and what it
\* allocates on the way.
round_run(A, round_constant, offsets) ==
  LET c == theta_c(A)
      d == theta_d(c)
      a_1 == theta_a(A, d)
      a_2 == rho_pi(a_1, offsets)
      a_3 == chi(a_2)
  IN [a_3 |-> iota(a_3, round_constant),
      allocations |-> theta_c_allocations(A) + theta_d_allocations(c) + theta_a_allocations(A, d)
                      + chi_allocations(a_2) + U64_allocations(a_3[1], round_constant)]

round(A, round_constant, offsets) == round_run(A, round_constant, offsets).a_3

----------------
(* Keccak::pad_keccak and Keccak::pad_sha3.                                *)

\* (A variant that pads with private variables.)
resize8_private(wires) ==
  wires \o [k \in 1..((((Len(wires) + 7) \div 8) * 8) - Len(wires)) |-> Boolean_new(Private, 0)]

\* (A variant that does not fill the last byte.)
resize8_none(wires) == wires

\* padded_input.resize((input.len() + 7) / 8 * 8, Boolean::constant(false))
resize8(wires) ==
  wires \o [k \in 1..((((Len(wires) + 7) \div 8) * 8) - Len(wires)) |-> Boolean_constant(0)]

\* while (padded_input.len() % bitrate) != (bitrate - 1) { push(constant(false)) }
\* (At most n iterations of the loop at a time, to bound the depth of the
\* evaluation.)
RECURSIVE zero_fill_upto(_, _, _)
zero_fill_upto(padded, r, n) ==
  IF n > 0 /\ (Len(padded) % r) # (r - 1)
  THEN zero_fill_upto(Append(padded, Boolean_constant(0)), r, n - 1)
  ELSE padded

RECURSIVE zero_fill(_, _)
zero_fill(padded, r) ==
  IF (Len(padded) % r) # (r - 1)
  THEN zero_fill(zero_fill_upto(padded, r, 40), r)
  ELSE padded

NoBlocks == [panicked |-> TRUE, blocks |-> <<>>]

\* The fill loop and the chunking for a suffixed input.  A bitrate of zero
\* panics in `%`; a wrapped bitrate (2^64 - 8k, written -8k) asks for a vector
\* of more than isize::MAX elements, which panics in push.
fill_and_chunk(suffixed, r) ==
  IF r <= 0 THEN NoBlocks
  ELSE [panicked |-> FALSE,
        blocks |-> chunks(Append(zero_fill(suffixed, r), Boolean_constant(1)), r)]

pad_keccak(wires, r, dbg) ==
  IF dbg /\ ~(r > 0) THEN NoBlocks
  ELSE fill_and_chunk(Append(resize8(wires), Boolean_constant(1)), r)

pad_sha3(wires, r, dbg) ==
  IF dbg /\ ~(r > 1) THEN NoBlocks
  ELSE fill_and_chunk(resize8(wires) \o <<Boolean_constant(0), Boolean_constant(1),
                                          Boolean_constant(1), Boolean_constant(0)>>, r)

----------------------------------------------------------------------------
(* Keccak::hash, step by step.                                             *)

\* let bitrate = (200 - (VARIANT / 4)) * 8: with overflow checks the
\* subtraction panics below zero, without them it wraps.
bitrate_of(V, dbg) ==
  [panicked |-> dbg /\ (V \div 4) > 200, value |-> (200 - (V \div 4)) * 8]

\* match TYPE { 0 => pad_keccak, 1 => pad_sha3, 2.. => unreachable!() }
pad(T, wires, r, dbg) ==
  IF T = 0 THEN pad_keccak(wires, r, dbg)
  ELSE IF T = 1 THEN pad_sha3(wires, r, dbg)
  ELSE NoBlocks

\* vec![Boolean::constant(false); PERMUTATION_WIDTH]
root_state == Collect([j \in 1..PERMUTATION_WIDTH |-> Boolean_constant(0)])

NoScope == [num_constants |-> 0, num_public |-> 0, num_private |-> 0, num_constraints |-> 0]

Allocate(sc, n) ==
  [sc EXCEPT !.num_private = @ + n, !.num_constraints = @ + n]

\* (A variant without the empty-input halt.)
entry_unchecked(T, V, wires, dbg) ==
  LET r == bitrate_of(V, dbg)
      early == \/ r.panicked
               \/ dbg /\ ~(r.value < PERMUTATION_WIDTH)
      padded == IF early THEN NoBlocks ELSE pad(T, wires, r.value, dbg)
  IN [halted |-> padded.panicked, bitrate |-> r.value, blocks |-> padded.blocks]

\* The entry of hash: the bitrate, its debug assertion, the empty-input
\* halt, the root state and the padding.  Every failure ends the call here.
entry(T, V, wires, dbg) ==
  LET r == bitrate_of(V, dbg)
      early == \/ r.panicked
               \/ dbg /\ ~(r.value < PERMUTATION_WIDTH)
               \/ wires = <<>>
      padded == IF early THEN NoBlocks ELSE pad(T, wires, r.value, dbg)
  IN [halted |-> padded.panicked, bitrate |-> r.value, blocks |-> padded.blocks]

\* (A variant that keeps the sponge state of the previous call.)
Enter_keeping_state(T, V, wires) ==
  LET e == entry(T, V, wires, debug) IN
  /\ TYPE' = T
  /\ VARIANT' = V
  /\ input' = wires
  /\ bitrate' = e.bitrate
  /\ pc' = IF e.halted THEN "halted" ELSE "absorb"
  /\ s' = IF e.halted THEN <<>> ELSE IF s = <<>> THEN root_state ELSE s
  /\ padded_blocks' = e.blocks
  /\ a' = <<>>
  /\ round_index' = 0
  /\ ret' = ""
  /\ z' = <<>>
  /\ output' = <<>>
  /\ perms' = 0
  /\ scope' = NoScope
  /\ UNCHANGED <<debug, pvars, svars, fvars, cvars, rvars>>

Enter(T, V, wires) ==
  LET e == entry(T, V, wires, debug) IN
  /\ TYPE' = T
  /\ VARIANT' = V
  /\ input' = wires
  /\ bitrate' = e.bitrate
  /\ pc' = IF e.halted THEN "halted" ELSE "absorb"
  /\ s' = IF e.halted THEN <<>> ELSE root_state
  /\ padded_blocks' = e.blocks
  /\ a' = <<>>
  /\ round_index' = 0
  /\ ret' = ""
  /\ z' = <<>>
  /\ output' = <<>>
  /\ perms' = 0
  /\ scope' = NoScope
  /\ UNCHANGED <<debug, pvars, svars, fvars, cvars, rvars>>

\* The first call of a process on its hasher.
Call(wires) ==
  /\ pc = "idle"
  /\ Enter(TYPE, VARIANT, wires)
  /\ UNCHANGED prev

Summary ==
  [TYPE |-> TYPE, VARIANT |-> VARIANT, input |-> input, pc |-> pc, bitrate |-> bitrate,
   output |-> output, perms |-> perms, scope |-> scope]

\* A second call after the first one returned or halted, on a hasher of
\* type T and output length V.
CallAgain(T, V, wires) ==
  /\ pc \in {"done", "halted"}
  /\ prev = <<>>
  /\ prev' = <<Summary>>
  /\ Enter(T, V, wires)

\* (A variant that leaves out the constant bits of the block.)
absorb_xor_variables(state, block) ==
  Collect([j \in 1..Len(state) |->
    IF j <= Len(block) /\ ~is_constant(block[j]) THEN Xor(state[j], block[j]) ELSE state[j]])

\* (A variant that leaves out the bits of the block whose value is 0.)
absorb_xor_ones(state, block) ==
  Collect([j \in 1..Len(state) |->
    IF j <= Len(block) /\ eject_value(block[j]) = 1 THEN Xor(state[j], block[j]) ELSE state[j]])

\* (A variant that XORs the block into the capacity too, over and over.)
absorb_xor_capacity(state, block) ==
  Collect([j \in 1..Len(state) |-> Xor(state[j], block[((j - 1) % Len(block)) + 1])])

\* s[j] = &s[j] ^ &bit for the bits of one block
absorb_xor(state, block) ==
  Collect([j \in 1..Len(state) |-> IF j <= Len(block) THEN Xor(state[j], block[j]) ELSE state[j]])

absorb_allocations(state, block) ==
  Cardinality({j \in 1..Len(block) : Allocates(state[j], block[j])})

\* (A variant that absorbs a block without permuting the state.)
AbsorbXor_unpermuted ==
  /\ pc = "absorb"
  /\ padded_blocks # <<>>
  /\ s' = absorb_xor(s, Head(padded_blocks))
  /\ scope' = Allocate(scope, absorb_allocations(s, Head(padded_blocks)))
  /\ padded_blocks' = Tail(padded_blocks)
  /\ UNCHANGED <<pvars, svars, fvars, cvars, rvars>>
  /\ UNCHANGED <<debug, TYPE, VARIANT, input, pc, bitrate, a, round_index, ret, z, output,
                 perms, prev>>

\* One iteration of the absorb loop up to the call of permutation_f, whose
\* first statement partitions the state into 64-bit lanes.
AbsorbXor ==
  /\ pc = "absorb"
  /\ padded_blocks # <<>>
  /\ LET block == Head(padded_blocks)
         xored == absorb_xor(s, block)
     IN /\ s' = xored
        /\ a' = chunks(xored, 64)
        /\ scope' = Allocate(scope, absorb_allocations(s, block))
  /\ padded_blocks' = Tail(padded_blocks)
  /\ round_index' = 0
  /\ ret' = "absorb"
  /\ pc' = "permute"
  /\ UNCHANGED <<pvars, svars, fvars, cvars, rvars>>
  /\ UNCHANGED <<debug, TYPE, VARIANT, input, bitrate, z, output, perms, prev>>

\* for round_constant in round_constants.iter().take(NUM_ROUNDS): one round.
Round ==
  /\ pc = "permute"
  /\ round_index < Min(NUM_ROUNDS, Len(round_constants))
  /\ LET r == round_run(a, At(round_constants, round_index), rotl)
     IN /\ a' = r.a_3
        /\ scope' = Allocate(scope, r.allocations)
  /\ round_index' = round_index + 1
  /\ UNCHANGED <<pvars, svars, fvars, cvars, rvars>>
  /\ UNCHANGED <<debug, TYPE, VARIANT, input, pc, bitrate, s, padded_blocks, ret, z,
                 output, perms, prev>>

\* permutation_f returns the flattened lanes, which hash assigns to s.
PermutationReturn ==
  /\ pc = "permute"
  /\ round_index = Min(NUM_ROUNDS, Len(round_constants))
  /\ s' = Flatten(a)
  /\ a' = <<>>
  /\ perms' = perms + 1
  /\ pc' = ret
  /\ ret' = ""
  /\ UNCHANGED <<pvars, svars, fvars, cvars, rvars>>
  /\ UNCHANGED <<debug, TYPE, VARIANT, input, bitrate, padded_blocks, round_index, z,
                 output, scope, prev>>

\* (A variant that starts to squeeze while blocks remain.)
SqueezeInit_early ==
  /\ pc = "absorb"
  /\ z' = SubSeq(s, 1, bitrate)
  /\ pc' = "squeeze"
  /\ UNCHANGED <<pvars, svars, fvars, cvars, rvars>>
  /\ UNCHANGED <<debug, TYPE, VARIANT, input, bitrate, s, padded_blocks, a, round_index,
                 ret, output, perms, scope, prev>>

\* let mut z = s[..bitrate].to_vec(), once the blocks are consumed.
SqueezeInit ==
  /\ pc = "absorb"
  /\ padded_blocks = <<>>
  /\ z' = SubSeq(s, 1, bitrate)
  /\ pc' = "squeeze"
  /\ UNCHANGED <<pvars, svars, fvars, cvars, rvars>>
  /\ UNCHANGED <<debug, TYPE, VARIANT, input, bitrate, s, padded_blocks, a, round_index,
                 ret, output, perms, scope, prev>>

\* (A variant that squeezes once more when z has just VARIANT bits.)
SqueezePermute_again ==
  /\ pc = "squeeze"
  /\ Len(z) <= VARIANT
  /\ a' = chunks(s, 64)
  /\ round_index' = 0
  /\ ret' = "extend"
  /\ pc' = "permute"
  /\ UNCHANGED <<pvars, svars, fvars, cvars, rvars>>
  /\ UNCHANGED <<debug, TYPE, VARIANT, input, bitrate, s, padded_blocks, z, output,
                 perms, scope, prev>>

\* while z.len() < VARIANT { s = permutation_f(s) ...
SqueezePermute ==
  /\ pc = "squeeze"
  /\ Len(z) < VARIANT
  /\ a' = chunks(s, 64)
  /\ round_index' = 0
  /\ ret' = "extend"
  /\ pc' = "permute"
  /\ UNCHANGED <<pvars, svars, fvars, cvars, rvars>>
  /\ UNCHANGED <<debug, TYPE, VARIANT, input, bitrate, s, padded_blocks, z, output,
                 perms, scope, prev>>

\* (A variant that puts the new bits in front.)
SqueezeExtend_front ==
  /\ pc = "extend"
  /\ z' = Take(s, bitrate) \o z
  /\ pc' = "squeeze"
  /\ UNCHANGED <<pvars, svars, fvars, cvars, rvars>>
  /\ UNCHANGED <<debug, TYPE, VARIANT, input, bitrate, s, padded_blocks, a, round_index,
                 ret, output, perms, scope, prev>>

\* ... z.extend(s.iter().take(bitrate).cloned()) }
SqueezeExtend ==
  /\ pc = "extend"
  /\ z' = z \o Take(s, bitrate)
  /\ pc' = "squeeze"
  /\ UNCHANGED <<pvars, svars, fvars, cvars, rvars>>
  /\ UNCHANGED <<debug, TYPE, VARIANT, input, bitrate, s, padded_blocks, a, round_index,
                 ret, output, perms, scope, prev>>

\* (A variant that returns all of z.)
Return_all ==
  /\ pc = "squeeze"
  /\ ~(Len(z) < VARIANT)
  /\ output' = z
  /\ pc' = "done"
  /\ UNCHANGED <<pvars, svars, fvars, cvars, rvars>>
  /\ UNCHANGED <<debug, TYPE, VARIANT, input, bitrate, s, padded_blocks, a, round_index,
                 ret, z, perms, scope, prev>>

\* (A variant that returns after the first squeeze.)
Return_first ==
  /\ pc = "squeeze"
  /\ output' = Take(z, VARIANT)
  /\ pc' = "done"
  /\ UNCHANGED <<pvars, svars, fvars, cvars, rvars>>
  /\ UNCHANGED <<debug, TYPE, VARIANT, input, bitrate, s, padded_blocks, a, round_index,
                 ret, z, perms, scope, prev>>

\* z.into_iter().take(VARIANT).collect()
Return ==
  /\ pc = "squeeze"
  /\ ~(Len(z) < VARIANT)
  /\ output' = Take(z, VARIANT)
  /\ pc' = "done"
  /\ UNCHANGED <<pvars, svars, fvars, cvars, rvars>>
  /\ UNCHANGED <<debug, TYPE, VARIANT, input, bitrate, s, padded_blocks, a, round_index,
                 ret, z, perms, scope, prev>>

Step ==
  \/ AbsorbXor
  \/ Round
  \/ PermutationReturn
  \/ SqueezeInit
  \/ SqueezePermute
  \/ SqueezeExtend
  \/ Return

----------------------------------------------------------------------------
(* The reference sponge on plain bits: multi-rate padding, keccak-f[1600]  *)
(* on lanes a[x,y] stored at x + 5y, absorb and squeeze.                   *)

\* rotl(word, n): bit i of the word moves to bit (i + n) mod 64.
ref_rotl(word, n) == Collect([j \in 1..64 |-> word[(((j - 1) - n) % 64) + 1]])

ref_xor(u, v) == Collect([k \in 1..64 |-> (u[k] + v[k]) % 2])

ref_lane(A, x, y) == A[(x % 5) + (5 * (y % 5)) + 1]

\* theta: C[x] = a[x,0] + ... + a[x,4]; D[x] = C[x-1] + rotl(C[x+1], 1);
\* a'[x,y] = a[x,y] + D[x].
ref_theta(A) ==
  LET C == Collect([x1 \in 1..5 |->
             Collect([k \in 1..64 |->
               (ref_lane(A, x1 - 1, 0)[k] + ref_lane(A, x1 - 1, 1)[k] + ref_lane(A, x1 - 1, 2)[k]
                + ref_lane(A, x1 - 1, 3)[k] + ref_lane(A, x1 - 1, 4)[k]) % 2])])
      D == Collect([x1 \in 1..5 |->
             LET left == C[((x1 - 1 + 4) % 5) + 1]
                 right == ref_rotl(C[((x1 - 1 + 1) % 5) + 1], 1)
             IN ref_xor(left, right)])
  IN Collect([i \in 1..25 |-> LET Dx == D[((i - 1) % 5) + 1] IN ref_xor(A[i], Dx)])

\* rho and pi: the lane at (x, y), rotated by its offset, goes to (y, 2x + 3y).
ref_rho_pi(A) ==
  Collect([i \in 1..25 |->
    LET X == (i - 1) % 5
        Y == (i - 1) \div 5
        from == CHOOSE xy \in (0..4) \X (0..4) : xy[2] = X /\ ((2 * xy[1]) + (3 * xy[2])) % 5 = Y
    IN ref_rotl(ref_lane(A, from[1], from[2]), RHO_OFFSETS[from[1] + (5 * from[2]) + 1])])

\* chi: a''[x,y] = a[x,y] + (not a[x+1,y]) and a[x+2,y].
ref_chi(A) ==
  Collect([i \in 1..25 |->
    LET x == (i - 1) % 5
        y == (i - 1) \div 5
        l0 == ref_lane(A, x, y)
        l1 == ref_lane(A, x + 1, y)
        l2 == ref_lane(A, x + 2, y)
    IN Collect([k \in 1..64 |-> (l0[k] + ((1 - l1[k]) * l2[k])) % 2])])

\* iota: the round constant is added to lane (0, 0).
ref_iota(A, t) ==
  Collect([i \in 1..25 |->
    IF i = 1
    THEN Collect([k \in 1..64 |-> (A[1][k] + (IF (k - 1) \in ROUND_CONSTANT_BITS[t] THEN 1 ELSE 0)) % 2])
    ELSE A[i]])

\* (Each round is computed, 25 lanes, before the next one starts.)
RECURSIVE ref_rounds(_, _)
ref_rounds(A, t) ==
  IF t > 24 THEN A
  ELSE LET A1 == ref_theta(A)
           A2 == ref_rho_pi(A1)
           A3 == ref_chi(A2)
           A4 == ref_iota(A3, t)
       IN IF Len(A4) = 25 THEN ref_rounds(A4, t + 1) ELSE <<>>

\* keccak-f[1600] on 1600 bits, lane x + 5y being bits [64(x + 5y), 64(x + 5y) + 64).
ref_keccak_f(state) ==
  LET lanes == Collect([i \in 1..25 |-> SubSeq(state, (64 * (i - 1)) + 1, 64 * i)])
      permuted == ref_rounds(lanes, 1)
  IN Flatten(permuted)

\* The padded message: the input, zeros up to a byte boundary, the domain
\* suffix (1 for Keccak, 0 1 1 0 for SHA3), zeros up to r - 1 modulo r, and a 1.
ref_pad(T, bits, r) ==
  LET aligned == bits \o [k \in 1..((-Len(bits)) % 8) |-> 0]
      suffixed == aligned \o (IF T = 0 THEN <<1>> ELSE <<0, 1, 1, 0>>)
      zeros == ((r - 1) - Len(suffixed)) % r
  IN suffixed \o [k \in 1..zeros |-> 0] \o <<1>>

RECURSIVE ref_absorb(_, _, _)
ref_absorb(state, padded, r) ==
  IF padded = <<>> THEN state
  ELSE LET xored == Collect([j \in 1..1600 |-> IF j <= r THEN (state[j] + padded[j]) % 2 ELSE state[j]])
           permuted == ref_keccak_f(xored)
           rest == SubSeq(padded, r + 1, Len(padded))
       IN IF Len(permuted) = 1600 THEN ref_absorb(permuted, rest, r) ELSE <<>>

RECURSIVE ref_squeeze(_, _, _, _)
ref_squeeze(state, Z, r, l) ==
  IF Len(Z) >= l THEN SubSeq(Z, 1, l)
  ELSE LET permuted == ref_keccak_f(state)
           longer == Z \o SubSeq(permuted, 1, r)
       IN IF Len(permuted) = 1600 /\ Len(longer) > Len(Z) THEN ref_squeeze(permuted, longer, r, l) ELSE <<>>

\* The digest of l bits of the sponge with bitrate r.
ref_sponge(T, r, l, bits) ==
  LET zero == Collect([j \in 1..1600 |-> 0])
      padded == ref_pad(T, bits, r)
      absorbed == ref_absorb(zero, padded, r)
      first == SubSeq(absorbed, 1, r)
  IN ref_squeeze(absorbed, first, r, l)

----------------------------------------------------------------------------
(* The hashers and the inputs of the checks.                               *)

\* Keccak224 .. Keccak512, Sha3_224 .. Sha3_512
NamedHashers == {0, 1} \X {224, 256, 384, 512}

\* Other output lengths: bitrate 1600 (0), 1592 (4), the first one that
\* squeezes twice (536), bitrate 8 (799), bitrate 0 (800) and a bitrate
\* below zero (804).
OtherHashers == ({0, 1} \X {0, 4, 536, 800, 804}) \cup {<<1, 799>>}

\* The bitrate as the number (200 - VARIANT / 4) * 8.
Rate(V) == (200 - (V \div 4)) * 8

\* All sequences of 1..n wires of the given set.
WireStrings(n, wires) == UNION {[1..m -> wires] : m \in 1..n}

PrivateBits == {Boolean_new(Private, 0), Boolean_new(Private, 1)}

\* A private input as long as the bitrate, which pads to two blocks.
BlockInput(V) ==
  IF (V \div 4) < 200
  THEN {[k \in 1..((200 - (V \div 4)) * 8) |-> Boolean_new(Private, IF k % 3 = 1 THEN 1 ELSE 0)]}
  ELSE {}

\* The named hashers on the empty input, on one bit, private or constant, on
\* every private input of MaxLen bits and on one of two blocks; a squeezing
\* hasher on one bit.
Inputs(T, V) ==
  IF <<T, V>> \in NamedHashers
  THEN {<<>>, <<Boolean_new(Private, 1)>>, <<Boolean_constant(1)>>}
       \cup [1..MaxLen -> PrivateBits] \cup BlockInput(V)
  ELSE {<<Boolean_new(Private, 1)>>, <<Boolean_constant(1)>>}

Start ==
  /\ debug \in BOOLEAN
  /\ pc = "idle"
  /\ input = <<>>
  /\ bitrate = 0
  /\ s = <<>>
  /\ padded_blocks = <<>>
  /\ a = <<>>
  /\ round_index = 0
  /\ ret = ""
  /\ z = <<>>
  /\ output = <<>>
  /\ perms = 0
  /\ scope = NoScope
  /\ prev = <<>>
  /\ PadIdle /\ StoreIdle /\ FieldIdle /\ ScalarIdle /\ PermutationIdle

Init ==
  /\ \E h \in NamedHashers \cup {<<0, 536>>} : TYPE = h[1] /\ VARIANT = h[2]
  /\ Start

Next ==
  \/ /\ pc = "idle"
     /\ \E wires \in Inputs(TYPE, VARIANT) : Call(Collect(wires))
  \/ Step

Spec == Init /\ [][Next]_kvars

----------------------------------------------------------------------------
(* Every hasher, named or not, on the empty input and on one bit.          *)

\* (The 99 squeeze permutations of VARIANT 799 are run without debug
\* assertions only: they make no difference to a call that does not fail.)
OtherInputs(T, V) ==
  IF <<T, V>> \in NamedHashers THEN {<<>>, <<Boolean_new(Private, 0)>>}
  ELSE IF V = 799 THEN {<<>>} \cup (IF debug THEN {} ELSE {<<Boolean_new(Private, 1)>>})
  ELSE {<<>>} \cup WireStrings(1, PrivateBits)

InitOther ==
  /\ \E h \in NamedHashers \cup OtherHashers : TYPE = h[1] /\ VARIANT = h[2]
  /\ Start

NextOther ==
  \/ /\ pc = "idle"
     /\ \E wires \in OtherInputs(TYPE, VARIANT) : Call(Collect(wires))
  \/ Step

SpecOther == InitOther /\ [][NextOther]_kvars

----------------------------------------------------------------------------
(* Two calls in a row: the bits of the first call hashed again, tagged     *)
(* differently or with another output length, or other variables of the    *)
(* same length.                                                            *)

ConstantBits == {Boolean_constant(0), Boolean_constant(1)}
PublicBits == {Boolean_new(Public, 0), Boolean_new(Public, 1)}

AllVariable(wires) == \A k \in 1..Len(wires) : ~is_constant(wires[k])

\* The test hashers: Keccak256 as in check_hash, and one that squeezes twice.
AgainHashers == {<<0, 256>>, <<1, 536>>}

\* First calls: every constant input of 1..MaxTagLen bits and the private
\* zeros for Keccak256, the empty input and one constant bit otherwise.
FirstInputs(T, V) ==
  IF <<T, V>> = <<0, 256>>
  THEN WireStrings(MaxTagLen, ConstantBits)
       \cup {[k \in 1..m |-> Boolean_new(Private, 0)] : m \in 1..MaxTagLen}
  ELSE {<<>>, <<Boolean_constant(1)>>}

\* Inputs of n bits: constants and private variables mixed, or all public.
Tagged(n) == [1..n -> ConstantBits \cup PrivateBits] \cup [1..n -> PublicBits]

\* Second calls: the same bit values under any tagging, or, after an
\* all-variable input, any all-variable input of the same length.
AgainInputs(wires) ==
  {w \in Tagged(Len(wires)) : \/ Values(w) = Values(wires)
                              \/ AllVariable(wires) /\ AllVariable(w)}

\* Second calls use the same hasher or the one whose output is one bitrate longer.
AgainVariants == {VARIANT, VARIANT + bitrate}

InitAgain ==
  /\ \E h \in AgainHashers : TYPE = h[1] /\ VARIANT = h[2]
  /\ Start

NextAgain ==
  \/ /\ pc = "idle"
     /\ \E wires \in FirstInputs(TYPE, VARIANT) : Call(Collect(wires))
  \/ /\ pc \in {"done", "halted"}
     /\ prev = <<>>
     /\ \E V \in AgainVariants, wires \in AgainInputs(input) : CallAgain(TYPE, V, Collect(wires))
  \/ Step

SpecAgain == InitAgain /\ [][NextAgain]_kvars

----------------------------------------------------------------------------
(* The padding functions, one statement or loop iteration at a time.       *)

\* (A variant that pushes the single 1 of pad_keccak in pad_sha3 too.)
domain_suffix_one(T) == <<Boolean_constant(1)>>

\* The bits pushed after the resize: 1 for pad_keccak, 0 1 1 0 for pad_sha3.
domain_suffix(T) ==
  IF T = 0 THEN <<Boolean_constant(1)>>
  ELSE <<Boolean_constant(0), Boolean_constant(1), Boolean_constant(1), Boolean_constant(0)>>

\* debug_assert!(bitrate > 0) in pad_keccak, debug_assert!(bitrate > 1) in pad_sha3
pad_precondition(T, r) == r > (IF T = 0 THEN 0 ELSE 1)

\* (A variant of the loop condition that stops at a multiple of the bitrate.)
fill_more_aligned(padded, r) == (Len(padded) % r) # 0

\* (padded_input.len() % bitrate) != (bitrate - 1)
fill_more(padded, r) == (Len(padded) % r) # (r - 1)

\* The function up to its loop: the debug assertion, the resize, the suffix.
PadBegin(T, r, wires) ==
  /\ pad_type' = T
  /\ pad_bitrate' = r
  /\ pad_input' = wires
  /\ fills' = 0
  /\ result' = <<>>
  /\ IF debug /\ ~pad_precondition(T, r)
     THEN pad_pc' = "panicked" /\ padded_input' = <<>>
     ELSE pad_pc' = "fill" /\ padded_input' = resize8(wires) \o domain_suffix(T)

\* A call of one of the padding functions on its own.
PadCall(T, r, wires) ==
  /\ pad_pc = "idle"
  /\ PadBegin(T, r, wires)
  /\ UNCHANGED <<kvars, svars, fvars, cvars, rvars>>

\* One iteration of the fill loop: padded_input.push(Boolean::constant(false)).
PadFill ==
  /\ pad_pc = "fill"
  /\ pad_bitrate > 0
  /\ fill_more(padded_input, pad_bitrate)
  /\ padded_input' = Append(padded_input, Boolean_constant(0))
  /\ fills' = fills + 1
  /\ UNCHANGED <<pad_pc, pad_type, pad_bitrate, pad_input, result>>
  /\ UNCHANGED <<kvars, svars, fvars, cvars, rvars>>

\* The loop condition with a bitrate of zero is a remainder by zero; with a
\* wrapped bitrate (written below zero) the loop cannot end before the
\* vector is larger than any allocation.  Both panic.
PadPanic ==
  /\ pad_pc = "fill"
  /\ pad_bitrate <= 0
  /\ pad_pc' = "panicked"
  /\ padded_input' = <<>>
  /\ UNCHANGED <<pad_type, pad_bitrate, pad_input, fills, result>>
  /\ UNCHANGED <<kvars, svars, fvars, cvars, rvars>>

\* (A variant that leaves the last bit out when the loop did not run and
\* the suffix already ends in a 1.)
PadLast_merged ==
  /\ pad_pc = "fill"
  /\ pad_bitrate > 0
  /\ ~fill_more(padded_input, pad_bitrate)
  /\ LET last_pushed == IF fills = 0 /\ pad_type = 0 THEN padded_input
                        ELSE Append(padded_input, Boolean_constant(1))
     IN /\ padded_input' = last_pushed
        /\ result' = chunks(last_pushed, pad_bitrate)
  /\ pad_pc' = "done"
  /\ UNCHANGED <<pad_type, pad_bitrate, pad_input, fills>>
  /\ UNCHANGED <<kvars, svars, fvars, cvars, rvars>>

\* After the loop: padded_input.push(Boolean::constant(true)), and the
\* chunks of `bitrate` bits are returned.
PadLast ==
  /\ pad_pc = "fill"
  /\ pad_bitrate > 0
  /\ ~fill_more(padded_input, pad_bitrate)
  /\ LET last_pushed == Append(padded_input, Boolean_constant(1))
     IN /\ padded_input' = last_pushed
        /\ result' = chunks(last_pushed, pad_bitrate)
  /\ pad_pc' = "done"
  /\ UNCHANGED <<pad_type, pad_bitrate, pad_input, fills>>
  /\ UNCHANGED <<kvars, svars, fvars, cvars, rvars>>

PadStep ==
  \/ PadFill
  \/ PadPanic
  \/ PadLast

\* Inputs of 0..MaxPadLen bits.
MaxPadLen == 17

\* Bitrates: none, the smallest ones, the smallest one hash can derive (8)
\* and another (24), and the ones at which an input of one byte and the
\* suffix end one short of the bitrate (10 for pad_keccak, 13 for pad_sha3).
PadRates == {0, 1, 2, 8, 10, 13, 24}

\* (The ones are at irregular positions, so that a bit out of place shows.)
PadInputs ==
  {[k \in 1..n |-> Boolean_new(IF k % 3 = 0 THEN Public ELSE Private,
                               IF k \in {1, 2, 4, 7, 11, 16} THEN 1 ELSE 0)] :
     n \in 0..MaxPadLen}

InitPad ==
  /\ TYPE = 0
  /\ VARIANT = 0
  /\ Start

NextPad ==
  \/ \E T \in {0, 1}, r \in PadRates, wires \in PadInputs : PadCall(T, r, Collect(wires))
  \/ PadStep

SpecPad == InitPad /\ [][NextPad]_vars

----------------------------------------------------------------------------
(* Keccak::hash with the loops of its padding taken one iteration at a     *)
(* time, and scheduled: a call that can take a step takes it.              *)

\* The entry of hash up to the call of the padding function.
CallSteps(wires) ==
  /\ pc = "idle"
  /\ LET r == bitrate_of(VARIANT, debug)
         early == \/ r.panicked
                  \/ debug /\ ~(r.value < PERMUTATION_WIDTH)
                  \/ wires = <<>>
     IN /\ bitrate' = r.value
        /\ IF early
           THEN pc' = "halted" /\ s' = <<>> /\ UNCHANGED pvars
           ELSE pc' = "pad" /\ s' = root_state /\ PadBegin(TYPE, r.value, wires)
  /\ input' = wires
  /\ padded_blocks' = <<>>
  /\ UNCHANGED <<debug, TYPE, VARIANT, a, round_index, ret, z, output, perms, scope, prev>>
  /\ UNCHANGED <<svars, fvars, cvars, rvars>>

\* The padding function returns its blocks to hash, or has panicked.
Padded ==
  /\ pc = "pad"
  /\ pad_pc \in {"done", "panicked"}
  /\ IF pad_pc = "panicked"
     THEN pc' = "halted" /\ s' = <<>> /\ padded_blocks' = <<>>
     ELSE pc' = "absorb" /\ s' = s /\ padded_blocks' = result
  /\ UNCHANGED <<debug, TYPE, VARIANT, input, bitrate, a, round_index, ret, z, output,
                 perms, scope, prev>>
  /\ UNCHANGED <<pvars, svars, fvars, cvars, rvars>>

\* Two named hashers, one whose output is twice its bitrate (640, bitrate
\* 320), one with 24 squeeze permutations (784, bitrate 32), and the ones
\* whose bitrate is 1600 (0), 0 (800) and below zero (804).
StepHashers == {<<0, 512>>, <<1, 512>>, <<0, 640>>, <<1, 784>>, <<0, 0>>, <<0, 800>>,
                <<1, 800>>, <<0, 804>>}

\* The empty input, one bit, and four bytes, which are two blocks of 32 bits.
StepInputs ==
  {<<>>, <<Boolean_new(Private, 1)>>,
   [k \in 1..32 |-> Boolean_new(Private, IF k % 3 = 1 THEN 1 ELSE 0)]}

InitSteps ==
  /\ \E h \in StepHashers : TYPE = h[1] /\ VARIANT = h[2]
  /\ Start

NextSteps ==
  \/ \E wires \in StepInputs : CallSteps(Collect(wires))
  \/ PadStep
  \/ Padded
  \/ Step

\* The steps of a call other than a round of the permutation.
Straight ==
  \/ PadStep
  \/ Padded
  \/ AbsorbXor
  \/ PermutationReturn
  \/ SqueezeInit
  \/ SqueezePermute
  \/ SqueezeExtend
  \/ Return

\* What a round does to the position in the loop over the round constants.
RoundAdvance ==
  /\ pc = "permute"
  /\ round_index < Min(NUM_ROUNDS, Len(round_constants))
  /\ round_index' = round_index + 1

\* The call is one sequential computation: whatever statement comes next
\* is executed.
SpecSteps ==
  InitSteps /\ [][NextSteps]_vars /\ WF_vars(Straight) /\ WF_round_index(RoundAdvance)

----------------------------------------------------------------------------
(* The claims.                                                             *)

Named == <<TYPE, VARIANT>> \in NamedHashers
Called == pc # "idle"
Finished == pc \in {"done", "halted"}

\* C1: for each of the eight named hashers and every non-empty input, hash
\* does not halt and what it returns has exactly VARIANT bits.
C1_OutputLength ==
  (Named /\ Called /\ input # <<>>) =>
    /\ pc # "halted"
    /\ pc = "done" => Len(output) = VARIANT

C1_Witness ==
  /\ Named /\ pc = "done" /\ Len(input) = 2 /\ VARIANT = 384 /\ Len(output) = 384

\* C2: for each of the eight named hashers and every non-empty input, the
\* values of the output bits are the digest of the reference sponge with
\* bitrate (200 - VARIANT/4) * 8 on the values of the input bits.
C2_Equivalence ==
  (Named /\ pc = "done" /\ input # <<>>) =>
    Values(output) = ref_sponge(TYPE, Rate(VARIANT), VARIANT, Values(input))

C2_Witness ==
  /\ Named /\ pc = "done" /\ TYPE = 1 /\ VARIANT = 512 /\ Len(input) = Rate(512)
  /\ perms = 2
  /\ Values(output) = ref_sponge(1, Rate(512), 512, Values(input))

\* C3: for every hasher, a call with an empty input halts: it returns no
\* output bits and calls the permutation not once.
C3_EmptyInputHalts ==
  (Called /\ input = <<>>) =>
    /\ pc = "halted"
    /\ output = <<>>
    /\ perms = 0
    /\ round_index = 0
    /\ a = <<>>

C3_Witness ==
  /\ pc = "halted" /\ input = <<>> /\ Named /\ ~debug /\ perms = 0

\* C4: a call on a hasher whose bitrate (200 - VARIANT/4) * 8 is at least
\* PERMUTATION_WIDTH always halts, before any permutation call.
C4_WidthPrecondition ==
  (Called /\ Rate(VARIANT) >= PERMUTATION_WIDTH) =>
    /\ pc \notin {"permute", "extend"}
    /\ perms = 0
    /\ Finished => pc = "halted"

\* C5: when every bit of a non-empty input is a constant, the call adds no
\* constraint and no public or private variable, and the padded blocks, the
\* state after every absorb and permutation step, the lanes inside the
\* permutation, the squeezed bits and the output are all constants.
C5_ConstantInput ==
  (Called /\ input # <<>> /\ AllConstant(input)) =>
    /\ pc # "halted"
    /\ scope = NoScope
    /\ AllConstant(s)
    /\ \A i \in 1..Len(padded_blocks) : AllConstant(padded_blocks[i])
    /\ \A i \in 1..Len(a) : AllConstant(a[i])
    /\ AllConstant(z)
    /\ AllConstant(output)

C5_Witness ==
  /\ pc = "done" /\ input = <<Boolean_constant(1)>> /\ TYPE = 1 /\ VARIANT = 224
  /\ perms = 1 /\ scope = NoScope /\ Len(output) = 224 /\ AllConstant(output)

Before == prev[1]

\* C6: two calls of one hasher on non-empty inputs with the same bit values,
\* whatever bits are constants and whatever bits are variables in each, end
\* the same way with the same output values.
C6_SameValues ==
  (/\ prev # <<>> /\ Finished /\ input # <<>>
   /\ TYPE = Before.TYPE /\ VARIANT = Before.VARIANT
   /\ Values(input) = Values(Before.input)) =>
    /\ pc = Before.pc
    /\ Values(output) = Values(Before.output)

C6_Witness ==
  /\ prev # <<>> /\ pc = "done" /\ Before.pc = "done"
  /\ TYPE = Before.TYPE /\ VARIANT = Before.VARIANT
  /\ Before.input = <<Boolean_constant(1), Boolean_constant(0)>>
  /\ input = <<Boolean_new(Private, 1), Boolean_constant(0)>>
  /\ Values(output) = Values(Before.output)
  /\ scope # Before.scope

\* The constraints of Keccak256 on 1..8 variable bits in the tests of hash.rs.
expected_num_constraints ==
  <<138157, 139108, 139741, 140318, 140879, 141350, 141787, 142132>>

\* C7: a call on a non-empty input of variables only adds a positive number
\* of constraints that depends on the hasher and the length of the input
\* alone: two calls on inputs of one length, public or private, of any bit
\* values, add the same constraints and variables; for Keccak256 they are
\* the numbers the tests expect.
C7_VariableInput ==
  (pc = "done" /\ input # <<>> /\ AllVariable(input)) =>
    /\ scope.num_constraints > 0
    /\ (/\ prev # <<>> /\ Before.pc = "done" /\ AllVariable(Before.input)
        /\ Len(Before.input) = Len(input)
        /\ TYPE = Before.TYPE /\ VARIANT = Before.VARIANT) => scope = Before.scope
    /\ (TYPE = 0 /\ VARIANT = 256 /\ Len(input) <= 8) =>
         scope = [num_constants |-> 0, num_public |-> 0,
                  num_private |-> expected_num_constraints[Len(input)],
                  num_constraints |-> expected_num_constraints[Len(input)]]

C7_Witness ==
  /\ prev # <<>> /\ pc = "done" /\ Before.pc = "done"
  /\ TYPE = Before.TYPE /\ VARIANT = Before.VARIANT
  /\ Before.input = <<Boolean_new(Private, 0), Boolean_new(Private, 0)>>
  /\ input = <<Boolean_new(Public, 1), Boolean_new(Public, 0)>>
  /\ scope = Before.scope
  /\ scope.num_constraints = 139108

\* C8: two calls with the same hasher and the same input end the same way,
\* with the same output bits after the same number of permutations and with
\* the same constraints.
C8_Deterministic ==
  (/\ prev # <<>> /\ Finished
   /\ TYPE = Before.TYPE /\ VARIANT = Before.VARIANT /\ input = Before.input) =>
    /\ pc = Before.pc
    /\ output = Before.output
    /\ perms = Before.perms
    /\ scope = Before.scope

C8_Witness ==
  /\ prev # <<>> /\ pc = "done" /\ Before.pc = "done"
  /\ TYPE = Before.TYPE /\ VARIANT = Before.VARIANT /\ input = Before.input
  /\ input = <<Boolean_new(Private, 0)>>
  /\ output = Before.output /\ perms = 1

\* C9, as the specification states it: for TYPE Keccak or SHA3 and every
\* VARIANT whose bitrate is below PERMUTATION_WIDTH, a call on a non-empty
\* input does not halt and returns exactly VARIANT bits.
C9_BelowWidth ==
  (Called /\ input # <<>> /\ TYPE \in {0, 1} /\ Rate(VARIANT) < PERMUTATION_WIDTH) =>
    /\ pc # "halted"
    /\ pc = "done" => Len(output) = VARIANT

\* C9, amended: for TYPE Keccak or SHA3 and every VARIANT whose bitrate is
\* above zero and below PERMUTATION_WIDTH, a call on a non-empty input does
\* not halt and returns exactly VARIANT bits.
C9_PositiveBelowWidth ==
  (/\ Called /\ input # <<>> /\ TYPE \in {0, 1}
   /\ 0 < Rate(VARIANT) /\ Rate(VARIANT) < PERMUTATION_WIDTH) =>
    /\ pc # "halted"
    /\ pc = "done" => Len(output) = VARIANT

C9_Witness ==
  /\ ~Named /\ pc = "done" /\ TYPE = 1 /\ VARIANT = 536 /\ bitrate = 528
  /\ input # <<>> /\ Len(output) = 536 /\ perms = 2

\* C10, as the specification states it: after a call that returned, a call
\* with the same TYPE and input and with VARIANT larger by the bitrate of
\* the first returns after exactly one more permutation, and the first
\* bits of its output are the output of the first call.
C10_LongerVariant ==
  (/\ prev # <<>> /\ Finished /\ Before.pc = "done"
   /\ TYPE = Before.TYPE /\ input = Before.input
   /\ VARIANT = Before.VARIANT + Before.bitrate) =>
    /\ pc = "done"
    /\ perms = Before.perms + 1
    /\ Take(output, Before.VARIANT) = Before.output

IsPrefix(u, v) == Len(u) <= Len(v) /\ SubSeq(v, 1, Len(u)) = u

Squeezing == pc \in {"squeeze", "extend"} \/ (pc = "permute" /\ ret = "extend")

\* C10, amended: inside one call, whose bitrate is fixed, each iteration of
\* the squeeze loop calls the permutation exactly once and adds one bitrate
\* of bits at the end of the squeezed bits, leaving the ones already there
\* unchanged; what is returned is their first VARIANT bits.
C10_SqueezeAppends ==
  /\ [](pc \in {"squeeze", "done"} =>
         /\ Len(z) = bitrate * (1 + perms - Len(pad(TYPE, input, bitrate, debug).blocks))
         /\ pc = "done" => output = Take(z, VARIANT))
  /\ [][Squeezing =>
         /\ IsPrefix(z, z')
         /\ Len(z') \in {Len(z), Len(z) + bitrate}
         /\ perms' \in {perms, perms + 1}
         /\ pc' = "done" => IsPrefix(output', z)]_kvars

C10_Witness ==
  /\ pc = "squeeze" /\ VARIANT = 536 /\ Len(z) = 2 * bitrate /\ perms = 2

----------------------------------------------------------------------------
(* Known answers.                                                          *)

\* A digest as hexadecimal digits: bit 8k + j (j in 0..7, least significant
\* first) of the output is bit j of byte k; a byte is written high digit first.
to_hex(bits) ==
  Collect([n \in 1..(Len(bits) \div 4) |->
    LET byte == (n - 1) \div 2
        low == IF n % 2 = 1 THEN 4 ELSE 0
    IN bits[(8 * byte) + low + 1] + (2 * bits[(8 * byte) + low + 2])
       + (4 * bits[(8 * byte) + low + 3]) + (8 * bits[(8 * byte) + low + 4])])

\* c5d2460186f7233c927e7db2dcc703c0e500b653ca82273b7bfad8045d85a47, the 63
\* digits the specification gives for Keccak-256 of the empty byte string.
KECCAK_256_EMPTY_63 ==
  <<12, 5, 13, 2, 4, 6, 0, 1, 8, 6, 15, 7, 2, 3, 3, 12, 9, 2, 7, 14, 7, 13, 11, 2, 13, 12,
    12, 7, 0, 3, 12, 0, 14, 5, 0, 0, 11, 6, 5, 3, 12, 10, 8, 2, 2, 7, 3, 11, 7, 11, 15, 10,
    13, 8, 0, 4, 5, 13, 8, 5, 10, 4, 7>>

\* bc36789e7a1e281436464229828f817d6612f7b477d66591ff96a9e064bcc98a,
\* Keccak-256 of the one byte 00.
KECCAK_256_ZERO_BYTE ==
  <<11, 12, 3, 6, 7, 8, 9, 14, 7, 10, 1, 14, 2, 8, 1, 4, 3, 6, 4, 6, 4, 2, 2, 9, 8, 2, 8,
    15, 8, 1, 7, 13, 6, 6, 1, 2, 15, 7, 11, 4, 7, 7, 13, 6, 6, 5, 9, 1, 15, 15, 9, 6, 10,
    9, 14, 0, 6, 4, 11, 12, 12, 9, 8, 10>>

Keccak256 == TYPE = 0 /\ VARIANT = 256

AllZero(wires) == \A k \in 1..Len(wires) : eject_value(wires[k]) = 0

\* C11, as the specification states it: a call of Keccak256 on an input of
\* zero bits returns, and what it returns is c5d2...5a47.
C11_EmptyDigest ==
  (Called /\ Keccak256 /\ input = <<>>) =>
    /\ pc # "halted"
    /\ pc = "done" => to_hex(Values(output)) = KECCAK_256_EMPTY_63

\* C11, amended: a call of Keccak256 on an input of zero bits halts and
\* returns nothing; the reference sponge on zero bits gives the 64 digits
\* c5d2...5a47 and a last digit 0; the shortest inputs hash accepts, 1..8
\* bits of value 0, are hashed as the one byte 00 and give bc36...c98a.
C11_EmptyHalts ==
  (Called /\ Keccak256) =>
    /\ input = <<>> =>
         /\ pc = "halted"
         /\ output = <<>>
         /\ to_hex(ref_sponge(0, Rate(256), 256, <<>>)) = Append(KECCAK_256_EMPTY_63, 0)
    /\ (pc = "done" /\ input # <<>> /\ Len(input) <= 8 /\ AllZero(input)) =>
         to_hex(Values(output)) = KECCAK_256_ZERO_BYTE

C11_Witness ==
  /\ Called /\ Keccak256 /\ input = <<>> /\ pc = "halted" /\ output = <<>> /\ perms = 0

----------------------------------------------------------------------------
(* Padding.                                                                *)

PadTotal == Len(padded_input)

\* C12: whatever the input, of 0..MaxPadLen bits, and whatever the bitrate
\* that meets the precondition of the function, the padding does not fail;
\* its blocks are of exactly the bitrate, so that the padded length is a
\* multiple of it; and the padded length exceeds the input's by at least 2
\* bits for pad_keccak and 5 bits for pad_sha3.
C12_PaddingGrowth ==
  /\ (pad_pc # "idle" /\ pad_precondition(pad_type, pad_bitrate)) => pad_pc # "panicked"
  /\ pad_pc = "done" =>
       /\ \A i \in 1..Len(result) :
            /\ Len(result[i]) = pad_bitrate
            /\ \A j \in 1..pad_bitrate : result[i][j] = padded_input[((i - 1) * pad_bitrate) + j]
       /\ Len(result) * pad_bitrate = PadTotal
       /\ PadTotal > Len(pad_input)
       /\ PadTotal % pad_bitrate = 0
       /\ PadTotal - Len(pad_input) >= (IF pad_type = 0 THEN 2 ELSE 5)

C12_Witness ==
  /\ pad_pc = "done" /\ pad_type = 1 /\ pad_bitrate = 8 /\ Len(pad_input) = 11
  /\ Len(result) = 3 /\ PadTotal = 24

\* The byte-aligned input with the suffix ends one bit short of a multiple
\* of the bitrate.
PadBoundary ==
  /\ pad_bitrate > 0
  /\ (((Len(pad_input) + 7) \div 8) * 8 + (IF pad_type = 0 THEN 1 ELSE 4)) % pad_bitrate
       = pad_bitrate - 1

\* C13: when the byte-aligned input with its suffix already ends one bit
\* short of a multiple of the bitrate, the fill loop does not run, and the
\* padded input is the input, zeros up to the byte, the whole suffix and
\* directly after it the final 1.  (With a bitrate that is a multiple of 8,
\* as all the ones hash derives are, this does not happen.)
C13_PaddingBoundary ==
  /\ (pad_pc \in {"fill", "done"} /\ PadBoundary) =>
       /\ fills = 0
       /\ pad_pc = "done" =>
            padded_input =
              pad_input
              \o [k \in 1..((-Len(pad_input)) % 8) |-> Boolean_constant(0)]
              \o (IF pad_type = 0 THEN <<Boolean_constant(1)>>
                  ELSE <<Boolean_constant(0), Boolean_constant(1), Boolean_constant(1),
                         Boolean_constant(0)>>)
              \o <<Boolean_constant(1)>>
  /\ (pad_pc # "idle" /\ pad_bitrate > 0 /\ pad_bitrate % 8 = 0) => ~PadBoundary

C13_Witness ==
  /\ pad_pc = "done" /\ PadBoundary /\ pad_type = 0 /\ pad_bitrate = 10
  /\ Len(pad_input) = 5 /\ fills = 0 /\ PadTotal = 10 /\ Len(result) = 1

----------------------------------------------------------------------------
(* The transition input store: InputStorage over eight maps.               *)

\* Map::insert: the value of the key is set, whether or not it had one.
map_insert(m, k, v) == [x \in (DOMAIN m) \cup {k} |-> IF x = k THEN v ELSE m[x]]

\* Map::remove: the key has no value afterwards, whether or not it had one.
map_remove(m, k) == [x \in (DOMAIN m) \ {k} |-> m[x]]

\* Map::get: None is <<>>, Some(v) is <<v>>.
map_get(m, k) == IF k \in DOMAIN m THEN <<m[k]>> ELSE <<>>

None == <<>>
Some(v) == <<v>>

\* The five variants of Input, each with its ID first.
Input_Constant(input_id, constant) ==
  [variant |-> "Constant", id |-> input_id, value |-> <<constant>>]
Input_Public(input_id, public) ==
  [variant |-> "Public", id |-> input_id, value |-> <<public>>]
Input_Private(input_id, private) ==
  [variant |-> "Private", id |-> input_id, value |-> <<private>>]
Input_Record(serial_number, tag, origin) ==
  [variant |-> "Record", id |-> serial_number, value |-> <<tag, origin>>]
Input_ExternalRecord(input_id) ==
  [variant |-> "ExternalRecord", id |-> input_id, value |-> <<>>]

\* inputs.iter().map(Input::id).copied().collect()
input_ids_of(inputs) == Collect([k \in 1..Len(inputs) |-> inputs[k].id])

\* The eight maps as one value.
Store ==
  [id_map |-> id_map, reverse_id_map |-> reverse_id_map, constant_map |-> constant_map,
   public_map |-> public_map, private_map |-> private_map, record_map |-> record_map,
   record_tag_map |-> record_tag_map, external_record_map |-> external_record_map]

\* The body of the loop of insert, for one input.
insert_input(st, transition_id, inp) ==
  LET reversed == [st EXCEPT !.reverse_id_map = map_insert(@, inp.id, transition_id)]
  IN CASE inp.variant = "Constant" ->
            [reversed EXCEPT !.constant_map = map_insert(@, inp.id, inp.value[1])]
       [] inp.variant = "Public" ->
            [reversed EXCEPT !.public_map = map_insert(@, inp.id, inp.value[1])]
       [] inp.variant = "Private" ->
            [reversed EXCEPT !.private_map = map_insert(@, inp.id, inp.value[1])]
       [] inp.variant = "Record" ->
            [reversed EXCEPT !.record_tag_map = map_insert(@, inp.value[1], inp.id),
                             !.record_map = map_insert(@, inp.id, inp.value)]
       [] inp.variant = "ExternalRecord" ->
            [reversed EXCEPT !.external_record_map = map_insert(@, inp.id, <<>>)]

RECURSIVE insert_inputs(_, _, _)
insert_inputs(st, transition_id, inputs) ==
  IF inputs = <<>> THEN st
  ELSE insert_inputs(insert_input(st, transition_id, Head(inputs)), transition_id, Tail(inputs))

\* InputStorage::insert
insert(st, transition_id, inputs) ==
  insert_inputs([st EXCEPT !.id_map = map_insert(@, transition_id, input_ids_of(inputs))],
                transition_id, inputs)

\* The body of the loop of remove, for one input ID.
remove_input(st, input_id) ==
  LET record == map_get(st.record_map, input_id)
      untagged == IF record # None
                  THEN [st EXCEPT !.record_tag_map = map_remove(@, record[1][1])]
                  ELSE st
  IN [untagged EXCEPT !.reverse_id_map = map_remove(@, input_id),
                      !.constant_map = map_remove(@, input_id),
                      !.public_map = map_remove(@, input_id),
                      !.private_map = map_remove(@, input_id),
                      !.record_map = map_remove(@, input_id),
                      !.external_record_map = map_remove(@, input_id)]

RECURSIVE remove_inputs(_, _)
remove_inputs(st, input_ids) ==
  IF input_ids = <<>> THEN st
  ELSE remove_inputs(remove_input(st, Head(input_ids)), Tail(input_ids))

\* InputStorage::remove
remove(st, transition_id) ==
  LET ids == map_get(st.id_map, transition_id)
  IN IF ids = None THEN st
     ELSE remove_inputs([st EXCEPT !.id_map = map_remove(@, transition_id)], ids[1])

Ok(v) == [ok |-> TRUE, value |-> v]
Err == [ok |-> FALSE, value |-> <<>>]

\* construct_input: the input of the one map that holds the ID, an error
\* if none or more than one holds it.
construct_input(st, input_id) ==
  LET constant == map_get(st.constant_map, input_id)
      public == map_get(st.public_map, input_id)
      private == map_get(st.private_map, input_id)
      record == map_get(st.record_map, input_id)
      external_record == map_get(st.external_record_map, input_id)
      found == <<constant # None, public # None, private # None, record # None,
                 external_record # None>>
  IN CASE found = <<TRUE, FALSE, FALSE, FALSE, FALSE>> ->
            Ok(Input_Constant(input_id, constant[1]))
       [] found = <<FALSE, TRUE, FALSE, FALSE, FALSE>> ->
            Ok(Input_Public(input_id, public[1]))
       [] found = <<FALSE, FALSE, TRUE, FALSE, FALSE>> ->
            Ok(Input_Private(input_id, private[1]))
       [] found = <<FALSE, FALSE, FALSE, TRUE, FALSE>> ->
            Ok(Input_Record(input_id, record[1][1], record[1][2]))
       [] found = <<FALSE, FALSE, FALSE, FALSE, TRUE>> ->
            Ok(Input_ExternalRecord(input_id))
       [] OTHER -> Err

\* InputStorage::get_inputs
get_inputs(st, transition_id) ==
  LET ids == map_get(st.id_map, transition_id)
  IN IF ids = None THEN Ok(<<>>)
     ELSE LET constructed == Collect([k \in 1..Len(ids[1]) |-> construct_input(st, ids[1][k])])
          IN IF \A k \in 1..Len(ids[1]) : constructed[k].ok
             THEN Ok(Collect([k \in 1..Len(ids[1]) |-> constructed[k].value]))
             ELSE Err

\* InputStorage::find_transition_id
find_transition_id(st, input_id) == map_get(st.reverse_id_map, input_id)

\* The maps take the values of a store.
Becomes(st) ==
  /\ id_map' = st.id_map
  /\ reverse_id_map' = st.reverse_id_map
  /\ constant_map' = st.constant_map
  /\ public_map' = st.public_map
  /\ private_map' = st.private_map
  /\ record_map' = st.record_map
  /\ record_tag_map' = st.record_tag_map
  /\ external_record_map' = st.external_record_map

maps == <<id_map, reverse_id_map, constant_map, public_map, private_map, record_map,
          record_tag_map, external_record_map>>

\* The inputs inserted are counted up to this.
MaxWrites == 2

\* The longest list of inputs of one insert.
MaxInputs == 2

\* An operation with its arguments and what it returned; `held` and
\* `before` are what the store held when it was called.
Operation(op, transition_id, input_id, inputs, returned, held, before) ==
  [op |-> op, t |-> transition_id, id |-> input_id, inputs |-> inputs, ret |-> returned,
   held |-> held, before |-> before]

\* InputStorage::contains_input_id
contains_input_id(st, input_id) == input_id \in DOMAIN st.reverse_id_map

\* The set of the elements of a list.
Range(list) == {list[k] : k \in 1..Len(list)}

\* An insert counts for as many writes as it has inputs, and for one if it
\* has none.
Insert(transition_id, inputs) ==
  /\ writes + (IF inputs = <<>> THEN 1 ELSE Len(inputs)) <= MaxWrites
  /\ Becomes(insert(Store, transition_id, inputs))
  /\ last' = Operation("insert", transition_id, 0, inputs, Ok(<<>>),
                       {i \in Range(input_ids_of(inputs)) : contains_input_id(Store, i)}, <<>>)
  /\ inserted' = map_insert(inserted, transition_id, inputs)
  /\ replaced' = replaced \cup (IF transition_id \in DOMAIN id_map
                                THEN Range(id_map[transition_id]) ELSE {})
  /\ writes' = writes + (IF inputs = <<>> THEN 1 ELSE Len(inputs))
  /\ UNCHANGED <<kvars, pvars, fvars, cvars, rvars>>

\* remove; `inputs` is what the transition ID was inserted with last, `ret`
\* the list of input IDs that was stored for it, if any, `held` the tags
\* that the record map held for these IDs, `before` the store before the
\* call if the transition ID was not stored.
Remove(transition_id) ==
  /\ Becomes(remove(Store, transition_id))
  /\ last' = Operation("remove", transition_id, 0,
                       IF transition_id \in DOMAIN inserted THEN inserted[transition_id] ELSE <<>>,
                       map_get(id_map, transition_id),
                       IF transition_id \in DOMAIN id_map
                       THEN {record_map[i][1] : i \in Range(id_map[transition_id]) \cap DOMAIN record_map}
                       ELSE {},
                       IF transition_id \in DOMAIN id_map THEN <<>> ELSE Store)
  /\ inserted' = map_remove(inserted, transition_id)
  /\ UNCHANGED <<replaced, writes>>
  /\ UNCHANGED <<kvars, pvars, fvars, cvars, rvars>>

GetInputs(transition_id) ==
  /\ last' = Operation("get_inputs", transition_id, 0, <<>>, get_inputs(Store, transition_id),
                       {}, <<>>)
  /\ UNCHANGED <<maps, inserted, replaced, writes>>
  /\ UNCHANGED <<kvars, pvars, fvars, cvars, rvars>>

FindTransitionId(input_id) ==
  /\ last' = Operation("find_transition_id", "", input_id, <<>>,
                       find_transition_id(Store, input_id), {}, <<>>)
  /\ UNCHANGED <<maps, inserted, replaced, writes>>
  /\ UNCHANGED <<kvars, pvars, fvars, cvars, rvars>>

TransitionIDs == {"t1", "t2"}
InputIDs == {1, 2}
Tags == {"tagA", "tagB"}

\* Every variant for every ID; a record with either tag.
SampleInputs ==
  UNION {{Input_Constant(i, "plaintext"), Input_Public(i, "plaintext"),
          Input_Private(i, "ciphertext"), Input_Record(i, "tagA", "origin"),
          Input_Record(i, "tagB", "origin"), Input_ExternalRecord(i)} : i \in InputIDs}

\* The lists of at most MaxInputs inputs that the writes left allow.
InputLists == UNION {[1..n -> SampleInputs] : n \in 0..Min(MaxInputs, MaxWrites - writes)}

InitStore == TYPE = 0 /\ VARIANT = 0 /\ Start /\ ~debug

NextStore ==
  \/ \E t \in TransitionIDs, inputs \in InputLists : Insert(t, Collect(inputs))
  \/ \E t \in TransitionIDs : Remove(t)
  \/ \E t \in TransitionIDs : GetInputs(t)
  \/ \E i \in InputIDs : FindTransitionId(i)

SpecStore == InitStore /\ [][NextStore]_vars

----------------------------------------------------------------------------
(* Termination.                                                            *)

ValidRate == 0 < bitrate /\ bitrate < PERMUTATION_WIDTH

\* ceil(VARIANT / bitrate) - 1, for an output of at least one bit.
SqueezeBound == ((VARIANT + bitrate - 1) \div bitrate) - 1

\* The iterations of the squeeze loop so far: the permutations that were
\* not made for a block of the padded input.
SqueezeCount == perms - Len(result)

\* The loops of a call keep to their bounds: the fill loop of the padding
\* runs at most bitrate - 1 times; with a valid bitrate the call does not
\* halt once it has passed the entry, every block is absorbed with one
\* permutation, and the squeeze loop runs ceil(VARIANT / bitrate) - 1 times.
LoopBounds ==
  /\ pc = "pad" => (pad_bitrate = bitrate /\ (pad_bitrate > 0 => fills <= pad_bitrate - 1))
  /\ (pc \in {"absorb", "permute"} /\ ret # "extend") =>
       perms = Len(result) - Len(padded_blocks) - (IF pc = "permute" THEN 1 ELSE 0)
  /\ (pc \in {"squeeze", "extend"} \/ ret = "extend") =>
       /\ ValidRate => (0 <= SqueezeCount /\ SqueezeCount <= SqueezeBound)
       /\ (Len(z) \div bitrate) = SqueezeCount + (IF pc = "extend" THEN 0 ELSE 1)
  /\ (pc = "done" /\ ValidRate) =>
       /\ SqueezeCount = SqueezeBound
       /\ Len(output) = VARIANT
  /\ (pc = "halted" /\ ValidRate) => input = <<>>

\* C14: every call of hash comes to an end, halted or returned, and until
\* then its loops keep to their bounds: at most bitrate - 1 iterations of
\* the fill loop, at most ceil(VARIANT / bitrate) - 1 of the squeeze loop.
C14_Terminates ==
  /\ Called ~> Finished
  /\ []LoopBounds

C14_Witness ==
  /\ pc = "done" /\ TYPE = 0 /\ VARIANT = 640 /\ bitrate = 320 /\ fills = 310
  /\ perms = 2 /\ SqueezeCount = 1 /\ Len(output) = 640

----------------------------------------------------------------------------
(* The input store.                                                        *)

\* No two inputs of the list have the same ID.
DistinctIDs(inputs) ==
  \A j, k \in 1..Len(inputs) : inputs[j].id = inputs[k].id => j = k

\* C15: get_inputs of a transition ID that
\* is not stored returns the empty list, and after an insert of any list of
\* inputs whose IDs the store did not hold, get_inputs returns that list.
C15_RoundTrip ==
  /\ (last.op = "get_inputs" /\ last.t \notin DOMAIN inserted) => last.ret = Ok(<<>>)
  /\ (last.op = "insert" /\ last.held = {}) => get_inputs(Store, last.t) = Ok(last.inputs)

\* The round trip of C15 for the lists of inputs with pairwise distinct
\* IDs, which is where the store keeps to it.
C15_RoundTripDistinct ==
  /\ (last.op = "get_inputs" /\ last.t \notin DOMAIN inserted) => last.ret = Ok(<<>>)
  /\ (last.op = "insert" /\ last.held = {} /\ DistinctIDs(last.inputs)) =>
       get_inputs(Store, last.t) = Ok(last.inputs)

C15_Witness ==
  /\ last.op = "insert" /\ last.held = {} /\ DistinctIDs(last.inputs)
  /\ last.inputs = <<Input_Record(2, "tagA", "origin"), Input_Constant(1, "plaintext")>>
  /\ get_inputs(Store, last.t) = Ok(last.inputs)

\* No stored transition contains the input ID.
NoStored(input_id) == \A t \in DOMAIN id_map : input_id \notin Range(id_map[t])

\* C16: find_transition_id returns None
\* while no stored transition contains the input ID, Some(t) for every
\* input ID of the list after insert(t, list), and None for each of them
\* after remove(t).
C16_Find ==
  /\ (last.op = "find_transition_id" /\ NoStored(last.id)) => last.ret = None
  /\ last.op = "insert" =>
       \A k \in 1..Len(last.inputs) :
         find_transition_id(Store, last.inputs[k].id) = Some(last.t)
  /\ last.op = "remove" =>
       \A k \in 1..Len(last.inputs) : find_transition_id(Store, last.inputs[k].id) = None

\* C16 without the input IDs of the lists that a second insert of their
\* transition ID has replaced, which is where the store keeps to it.
C16_FindUnreplaced ==
  /\ (last.op = "find_transition_id" /\ NoStored(last.id) /\ last.id \notin replaced) =>
       last.ret = None
  /\ last.op = "insert" =>
       \A k \in 1..Len(last.inputs) :
         find_transition_id(Store, last.inputs[k].id) = Some(last.t)
  /\ last.op = "remove" =>
       \A k \in 1..Len(last.inputs) : find_transition_id(Store, last.inputs[k].id) = None

C16_Witness ==
  /\ last.op = "remove" /\ last.t = "t2" /\ last.ret = Some(<<1, 2>>)
  /\ last.inputs = <<Input_Private(1, "ciphertext"), Input_ExternalRecord(2)>>
  /\ find_transition_id(Store, 1) = None /\ find_transition_id(Store, 2) = None
  /\ replaced = {}

\* No map of the store holds the input ID.
Absent(input_id) ==
  /\ input_id \notin DOMAIN reverse_id_map
  /\ input_id \notin DOMAIN constant_map
  /\ input_id \notin DOMAIN public_map
  /\ input_id \notin DOMAIN private_map
  /\ input_id \notin DOMAIN record_map
  /\ input_id \notin DOMAIN external_record_map

\* C17: after remove(t) of a stored t,
\* get_inputs(t) is empty, t is not in the ID map, no ID stored for t is in
\* the reverse map or in the five input maps and no tag of a Record input
\* of t is in the tag map; remove(t) of a t that is not stored changes no map.
C17_Remove ==
  /\ (last.op = "remove" /\ last.ret # None) =>
       /\ get_inputs(Store, last.t) = Ok(<<>>)
       /\ last.t \notin DOMAIN id_map
       /\ \A i \in Range(last.ret[1]) : Absent(i)
       /\ \A k \in 1..Len(last.inputs) :
            last.inputs[k].variant = "Record" =>
              last.inputs[k].value[1] \notin DOMAIN record_tag_map
  /\ (last.op = "remove" /\ last.ret = None) => Store = last.before

\* C17 for the tags that the record map held for an ID of t when remove
\* was called (the tag each serial number was stored with last), which
\* is where the store keeps to it.
C17_RemoveHeldTags ==
  /\ (last.op = "remove" /\ last.ret # None) =>
       /\ get_inputs(Store, last.t) = Ok(<<>>)
       /\ last.t \notin DOMAIN id_map
       /\ \A i \in Range(last.ret[1]) : Absent(i)
       /\ \A k \in 1..Len(last.inputs) :
            (last.inputs[k].variant = "Record" /\ last.inputs[k].value[1] \in last.held) =>
              last.inputs[k].value[1] \notin DOMAIN record_tag_map
  /\ (last.op = "remove" /\ last.ret = None) => Store = last.before

C17_Witness ==
  /\ last.op = "remove" /\ last.t = "t1" /\ last.ret = Some(<<1, 2>>)
  /\ last.inputs = <<Input_Record(1, "tagA", "origin"), Input_Record(2, "tagB", "origin")>>
  /\ last.held = {"tagA", "tagB"}
  /\ Absent(1) /\ Absent(2) /\ record_tag_map = <<>> /\ id_map = <<>>

----------------------------------------------------------------------------
(* Field<E>::from_bits_le and from_bits_be                                 *)
(* (circuits/types/field/src/from_bits.rs).  The base field is scaled down *)
(* to a prime of four bits, the way the base field of the curve is a prime *)
(* of 253 bits: size_in_bits is the bit length of the modulus and          *)
(* size_in_data_bits is one less.                                          *)

BaseField_MODULUS == 13

RECURSIVE bit_length(_)
bit_length(n) == IF n = 0 THEN 0 ELSE 1 + bit_length(n \div 2)

size_in_bits == bit_length(BaseField_MODULUS)
size_in_data_bits == size_in_bits - 1

\* The little-endian bits of a field element, size_in_bits of them.
Field_to_bits_le(n) == Collect([k \in 1..size_in_bits |-> (n \div 2 ^ (k - 1)) % 2])

\* p | q: a constant operand folds (constant true, or the other operand);
\* two variables allocate one private variable and one constraint.
or_gate(p, q) ==
  IF is_constant(p) THEN (IF eject_value(p) = 1 THEN p ELSE q)
  ELSE IF is_constant(q) THEN (IF eject_value(q) = 1 THEN q ELSE p)
  ELSE Boolean_new(Private,
                   IF eject_value(p) + eject_value(q) > 0 THEN 1 ELSE 0)

\* Boolean::ternary(condition, first, second): a constant condition selects
\* one of the two wires; a variable condition is witnessed by a private
\* variable under one constraint.
ternary(condition, first, second) ==
  IF is_constant(condition)
  THEN (IF eject_value(condition) = 1 THEN first ELSE second)
  ELSE Boolean_new(Private,
                   IF eject_value(condition) = 1 THEN eject_value(first)
                   ELSE eject_value(second))

\* The gates of a call are counted as [wire, num_private, num_constraints].
Gate(wire, grows, acc) ==
  [wire |-> wire,
   num_private |-> acc.num_private + (IF grows THEN 1 ELSE 0),
   num_constraints |-> acc.num_constraints + (IF grows THEN 1 ELSE 0)]

Boolean_constant_false == [wire |-> Boolean_constant(0), num_private |-> 0, num_constraints |-> 0]

\* The excess bits without the first of them.
excess_bits_later(bits_le) == SubSeq(bits_le, size_in_bits + 2, Len(bits_le))

\* bits_le[size_in_bits..]
excess_bits(bits_le) == SubSeq(bits_le, size_in_bits + 1, Len(bits_le))

\* bits_le[size_in_bits..].iter().fold(Boolean::constant(false), |acc, bit| acc | bit)
RECURSIVE fold_or(_, _)
fold_or(acc, bits) ==
  IF bits = <<>> THEN acc
  ELSE fold_or(Gate(or_gate(acc.wire, Head(bits)), allocates(acc.wire, Head(bits)), acc),
               Tail(bits))

should_be_zero(bits_le) == fold_or(Boolean_constant_false, excess_bits(bits_le))

\* The modulus itself as the bound of the comparison.
modulus_itself == BaseField_MODULUS

\* -E::BaseField::one()
modulus_minus_one == BaseField_MODULUS - 1

\* bits_le.iter().chain(repeat(&boolean_false)).take(size_in_bits)
padded_bits_le(bits_le) ==
  Collect([k \in 1..size_in_bits |->
             IF k <= Len(bits_le) THEN bits_le[k] ELSE Boolean_constant(0)])

\* One step of the comparison: the pair of a bit of the bound and a bit of
\* the list, from the least significant pair up.
is_less_step(rest_is_less, modulus_minus_one_bit, other_bit) ==
  IF modulus_minus_one_bit = 1
  THEN Gate(ternary(not_gate(other_bit), other_bit, rest_is_less.wire),
            ~is_constant(other_bit), rest_is_less)
  ELSE Gate(ternary(other_bit, other_bit, rest_is_less.wire),
            ~is_constant(other_bit), rest_is_less)

RECURSIVE fold_is_less(_, _, _)
fold_is_less(rest_is_less, bound_bits, other_bits) ==
  IF bound_bits = <<>> THEN rest_is_less
  ELSE fold_is_less(is_less_step(rest_is_less, Head(bound_bits), Head(other_bits)),
                    Tail(bound_bits), Tail(other_bits))

modulus_minus_one_less_than_bits(bits_le) ==
  fold_is_less(Boolean_constant_false, Field_to_bits_le(modulus_minus_one),
               padded_bits_le(bits_le))

\* match (x.is_constant(), x.eject_value()): "halt", "assert" or "pass".
ensure_zero(x) ==
  IF is_constant(x.wire) THEN (IF eject_value(x.wire) = 1 THEN "halt" ELSE "pass")
  ELSE "assert"

\* output := 2^i * b_i + ... + 2^0 * b_0 over the first size_in_bits bits.
RECURSIVE linear_combination(_, _)
linear_combination(bits, coefficient) ==
  IF bits = <<>> THEN 0
  ELSE (eject_value(Head(bits)) * coefficient
        + linear_combination(Tail(bits), (2 * coefficient) % BaseField_MODULUS))
       % BaseField_MODULUS

Halt == [halted |-> TRUE, satisfied |-> TRUE, value |-> 0, bits_le |-> <<>>,
         num_private |-> 0, num_constraints |-> 0]

from_bits_le(bits_le) ==
  LET num_bits == Len(bits_le)
      excess == IF num_bits > size_in_bits THEN should_be_zero(bits_le)
                ELSE Boolean_constant_false
      first_check == IF num_bits > size_in_bits THEN ensure_zero(excess) ELSE "pass"
      less == IF num_bits > size_in_data_bits THEN modulus_minus_one_less_than_bits(bits_le)
              ELSE Boolean_constant_false
      second_check == IF num_bits > size_in_data_bits THEN ensure_zero(less) ELSE "pass"
      asserted(check) == IF check = "assert" THEN 1 ELSE 0
      holds(check, x) == check = "assert" => eject_value(x.wire) = 0
  IN IF first_check = "halt" \/ second_check = "halt" THEN Halt
     ELSE [halted |-> FALSE,
           satisfied |-> holds(first_check, excess) /\ holds(second_check, less),
           value |-> linear_combination(Take(bits_le, size_in_bits), 1),
           bits_le |-> padded_bits_le(bits_le),
           num_private |-> excess.num_private + less.num_private,
           num_constraints |-> excess.num_constraints + asserted(first_check)
                               + less.num_constraints + asserted(second_check)]

\* bits_le.reverse()
reverse(bits) == Collect([k \in 1..Len(bits) |-> bits[Len(bits) - k + 1]])

from_bits_be(bits_be) == from_bits_le(reverse(bits_be))

\* The lists run to MaxExcess bits past the size of the field.
MaxExcess == 2

ModeBits(mode) == {Boolean_new(mode, 0), Boolean_new(mode, 1)}

\* Lists of one mode, as the tests of from_bits.rs build them, and lists of
\* constants and private variables together, one bit past the field.
FieldInputs ==
  UNION {[1..n -> ModeBits(mode)] :
           n \in 0..(size_in_bits + MaxExcess), mode \in {Constant, Public, Private}}
  \cup [1..(size_in_bits + 1) -> ConstantBits \cup PrivateBits]

FromBitsLe ==
  /\ field_call.fn = "none"
  /\ \E bits \in FieldInputs :
       /\ field_call' = [fn |-> "from_bits_le", bits |-> Collect(bits)]
       /\ field_ret' = from_bits_le(Collect(bits))
  /\ UNCHANGED <<kvars, pvars, svars, cvars, rvars>>

FromBitsBe ==
  /\ field_call.fn = "none"
  /\ \E bits \in FieldInputs :
       /\ field_call' = [fn |-> "from_bits_be", bits |-> Collect(bits)]
       /\ field_ret' = from_bits_be(Collect(bits))
  /\ UNCHANGED <<kvars, pvars, svars, cvars, rvars>>

InitField == TYPE = 0 /\ VARIANT = 0 /\ Start /\ ~debug

NextField == FromBitsLe \/ FromBitsBe

SpecField == InitField /\ [][NextField]_vars

----------------------------------------------------------------------------
(* Field elements from bits.                                               *)

\* The bits of the last call, least significant first.
LittleEndian ==
  IF field_call.fn = "from_bits_be"
  THEN Collect([k \in 1..Len(field_call.bits) |->
                  field_call.bits[Len(field_call.bits) + 1 - k]])
  ELSE field_call.bits

RECURSIVE IntLE(_)
IntLE(values) == IF values = <<>> THEN 0 ELSE Head(values) + 2 * IntLE(Tail(values))

NoConstant(wires) == \A k \in 1..Len(wires) : ~is_constant(wires[k])

Accepted == ~field_ret.halted /\ field_ret.satisfied

\* C18: a call of from_bits_le on a list longer than size_in_bits whose
\* excess bits are all zero does what the call on the first size_in_bits
\* bits alone does: the same field value, and exactly these size_in_bits
\* bits cached; a list of variables costs one constraint more per excess bit
\* and one private variable more per excess bit but the first.  With an
\* excess bit of one the call halts when the bits are constants and leaves
\* the circuit unsatisfied when they are variables; in a list of both it
\* halts exactly when an excess one is a constant or the first size_in_bits
\* bits alone halt. from_bits_be does the same on the list reversed.
C18_ExcessBits ==
  (field_call.fn # "none" /\ Len(field_call.bits) > size_in_bits) =>
    LET le == LittleEndian
        low == Take(le, size_in_bits)
        high == SubSeq(le, size_in_bits + 1, Len(le))
        alone == from_bits_le(low)
    IN /\ (\A k \in 1..Len(high) : eject_value(high[k]) = 0) =>
            /\ field_ret.halted = alone.halted
            /\ field_ret.satisfied = alone.satisfied
            /\ field_ret.value = alone.value
            /\ ~field_ret.halted =>
                 /\ field_ret.bits_le = low
                 /\ Len(field_ret.bits_le) = size_in_bits
            /\ Accepted => field_ret.value = IntLE(Values(low))
       /\ (\E k \in 1..Len(high) : eject_value(high[k]) = 1) =>
            /\ ~Accepted
            /\ AllConstant(le) => field_ret.halted
            /\ NoConstant(le) => ~field_ret.halted /\ ~field_ret.satisfied
            /\ field_ret.halted <=>
                 \/ \E k \in 1..Len(high) : high[k] = Boolean_constant(1)
                 \/ alone.halted
       /\ NoConstant(le) =>
            /\ field_ret.num_private = size_in_bits + Len(high) - 1
            /\ field_ret.num_constraints = size_in_bits + 1 + Len(high)
            /\ alone.num_private = size_in_bits
            /\ alone.num_constraints = size_in_bits + 1

C18_Witness ==
  /\ field_call.fn = "from_bits_be"
  /\ field_call.bits = <<Boolean_new(Public, 0), Boolean_new(Public, 0), Boolean_new(Public, 1),
                         Boolean_new(Public, 0), Boolean_new(Public, 1), Boolean_new(Public, 1)>>
  /\ Accepted /\ field_ret.value = 11
  /\ Len(field_ret.bits_le) = size_in_bits
  /\ field_ret.num_private = 5 /\ field_ret.num_constraints = 7

\* C19: a call on a list of more than size_in_data_bits bits is accepted
\* (it neither halts nor leaves the circuit unsatisfied) exactly when the
\* little-endian value of the list is at most the modulus less one, and then
\* returns that value.  The fold over the bits of the modulus less one and
\* the padded bits is true exactly when the modulus less one is less than
\* the value of the padded bits; when it is true the call halts if the bits
\* are constants, and the circuit is unsatisfied if they are variables.  The
\* bits of the modulus itself are rejected.
C19_ModulusCheck ==
  (field_call.fn # "none" /\ Len(field_call.bits) > size_in_data_bits) =>
    LET le == LittleEndian
        fold == modulus_minus_one_less_than_bits(le).wire
        padded == IntLE(Values(Take(le, size_in_bits)))
    IN /\ Accepted <=> IntLE(Values(le)) <= BaseField_MODULUS - 1
       /\ Accepted => field_ret.value = IntLE(Values(le))
       /\ eject_value(fold) = 1 <=> BaseField_MODULUS - 1 < padded
       /\ eject_value(fold) = 1 =>
            /\ AllConstant(le) => field_ret.halted
            /\ NoConstant(le) => ~field_ret.halted /\ ~field_ret.satisfied
            /\ is_constant(fold) => field_ret.halted
       /\ padded = BaseField_MODULUS => ~Accepted

C19_Witness ==
  /\ field_call.fn = "from_bits_le"
  /\ field_call.bits = <<Boolean_new(Private, 1), Boolean_new(Private, 0),
                         Boolean_new(Private, 1), Boolean_new(Private, 1)>>
  /\ ~field_ret.halted /\ ~field_ret.satisfied
  /\ field_ret.value = 0
  /\ field_ret.num_private = size_in_bits /\ field_ret.num_constraints = size_in_bits + 1

----------------------------------------------------------------------------
(* Compare for Scalar<E> (circuits/types/scalar/src/compare.rs).  The      *)
(* scalar field is scaled with the base field: its modulus is a prime      *)
(* below half the modulus of the base field, as on the curve.              *)

ScalarField_MODULUS == 5

\* E::BaseField::modulus_minus_one_div_two()
modulus_minus_one_div_two == (BaseField_MODULUS - 1) \div 2

\* Scalar::new(mode, value)
Scalar_new(mode, value) == [mode |-> mode, value |-> value]

\* self.to_field() - other.to_field(), in the base field
Field_sub(x, y) == (x + BaseField_MODULUS - y) % BaseField_MODULUS

\* .double()
Field_double(x) == (2 * x) % BaseField_MODULUS

\* .to_bits_be() of a field element that is no constant: size_in_bits
\* private bits, most significant first, under size_in_bits + 1 constraints.
Field_to_bits_be(x) ==
  Collect([k \in 1..size_in_bits |->
             Boolean_new(Private, (x \div 2 ^ (size_in_bits - k)) % 2)])

\* .pop()
pop(bits) == bits[Len(bits)]

Compared(wire, constants, private, constraints) ==
  [halted |-> FALSE, wire |-> wire, num_constants |-> constants, num_private |-> private,
   num_constraints |-> constraints]

AssertionFailed == [halted |-> TRUE, wire |-> 0, num_constants |-> 0, num_private |-> 0,
                    num_constraints |-> 0]

\* The comparison by the parity of self - other, not doubled.
is_less_than_undoubled(self, other) ==
  IF debug /\ ~(ScalarField_MODULUS < modulus_minus_one_div_two) THEN AssertionFailed
  ELSE IF self.mode = Constant /\ other.mode = Constant
       THEN Compared(Boolean_new(Constant, IF self.value < other.value THEN 1 ELSE 0), 1, 0, 0)
       ELSE Compared(pop(Field_to_bits_be(Field_sub(self.value, other.value))),
                     0, size_in_bits, size_in_bits + 1)

is_less_than(self, other) ==
  IF debug /\ ~(ScalarField_MODULUS < modulus_minus_one_div_two) THEN AssertionFailed
  ELSE IF self.mode = Constant /\ other.mode = Constant
       THEN Compared(Boolean_new(Constant, IF self.value < other.value THEN 1 ELSE 0), 1, 0, 0)
       ELSE Compared(pop(Field_to_bits_be(Field_double(Field_sub(self.value, other.value)))),
                     0, size_in_bits, size_in_bits + 1)

is_greater_than(self, other) == is_less_than(other, self)

\* !self.is_less_than(other)
is_greater_than_or_equal(self, other) ==
  LET less == is_less_than(self, other)
  IN IF less.halted THEN less ELSE [less EXCEPT !.wire = not_gate(less.wire)]

is_less_than_or_equal(self, other) == is_greater_than_or_equal(other, self)

Scalars == 0..(ScalarField_MODULUS - 1)

Compare(fn, self, other, returned) ==
  /\ scalar_call' = [fn |-> fn, a |-> self.value, b |-> other.value,
                     mode_a |-> self.mode, mode_b |-> other.mode]
  /\ scalar_ret' = returned
  /\ UNCHANGED <<kvars, pvars, svars, fvars, rvars>>

IsLessThan ==
  /\ scalar_call.fn = "none"
  /\ \E first \in Scalars, second \in Scalars, mode_a \in {Constant, Public, Private},
        mode_b \in {Constant, Public, Private} :
       Compare("is_less_than", Scalar_new(mode_a, first), Scalar_new(mode_b, second),
               is_less_than(Scalar_new(mode_a, first), Scalar_new(mode_b, second)))

IsGreaterThan ==
  /\ scalar_call.fn = "none"
  /\ \E first \in Scalars, second \in Scalars, mode_a \in {Constant, Public, Private},
        mode_b \in {Constant, Public, Private} :
       Compare("is_greater_than", Scalar_new(mode_a, first), Scalar_new(mode_b, second),
               is_greater_than(Scalar_new(mode_a, first), Scalar_new(mode_b, second)))

IsLessThanOrEqual ==
  /\ scalar_call.fn = "none"
  /\ \E first \in Scalars, second \in Scalars, mode_a \in {Constant, Public, Private},
        mode_b \in {Constant, Public, Private} :
       Compare("is_less_than_or_equal", Scalar_new(mode_a, first), Scalar_new(mode_b, second),
               is_less_than_or_equal(Scalar_new(mode_a, first), Scalar_new(mode_b, second)))

IsGreaterThanOrEqual ==
  /\ scalar_call.fn = "none"
  /\ \E first \in Scalars, second \in Scalars, mode_a \in {Constant, Public, Private},
        mode_b \in {Constant, Public, Private} :
       Compare("is_greater_than_or_equal", Scalar_new(mode_a, first), Scalar_new(mode_b, second),
               is_greater_than_or_equal(Scalar_new(mode_a, first), Scalar_new(mode_b, second)))

InitScalar == TYPE = 0 /\ VARIANT = 0 /\ Start

NextScalar == IsLessThan \/ IsGreaterThan \/ IsLessThanOrEqual \/ IsGreaterThanOrEqual

SpecScalar == InitScalar /\ [][NextScalar]_vars

----------------------------------------------------------------------------
(* Comparison of scalars.                                                  *)

\* The order of the integers the scalars stand for.
Ordered(fn, x, y) ==
  CASE fn = "is_less_than" -> x < y
    [] fn = "is_less_than_or_equal" -> x <= y
    [] fn = "is_greater_than" -> x > y
    [] fn = "is_greater_than_or_equal" -> x >= y

\* The least significant bit of 2 * (a - b) mod p.
Parity(x, y) == ((2 * (x - y)) % BaseField_MODULUS) % 2

\* C20: for all scalars a and b in each of the nine combinations of modes,
\* is_less_than, is_less_than_or_equal, is_greater_than and
\* is_greater_than_or_equal return a < b, a <= b, a > b and a >= b, in both
\* build profiles.  Two constants give a constant; otherwise is_less_than
\* returns the least significant bit of 2 * (a - b) mod p, a private bit of
\* the bit decomposition, and this bit is 1 exactly when a < b, the modulus
\* of the scalar field being below (p - 1) / 2.
C20_Compare ==
  scalar_call.fn # "none" =>
    LET first == scalar_call.a
        second == scalar_call.b
        constants == scalar_call.mode_a = Constant /\ scalar_call.mode_b = Constant
    IN /\ ~scalar_ret.halted
       /\ eject_value(scalar_ret.wire) = 1 <=> Ordered(scalar_call.fn, first, second)
       /\ is_constant(scalar_ret.wire) <=> constants
       /\ ScalarField_MODULUS < modulus_minus_one_div_two
       /\ Parity(first, second) = 1 <=> first < second
       /\ constants =>
            /\ scalar_ret.num_constants = 1
            /\ scalar_ret.num_private = 0 /\ scalar_ret.num_constraints = 0
       /\ ~constants =>
            /\ scalar_ret.num_constants = 0
            /\ scalar_ret.num_private = size_in_bits
            /\ scalar_ret.num_constraints = size_in_bits + 1
            /\ scalar_call.fn = "is_less_than" =>
                 scalar_ret.wire = Boolean_new(Private, Parity(first, second))

C20_Witness ==
  /\ scalar_call = [fn |-> "is_less_than", a |-> 1, b |-> 4,
                    mode_a |-> Constant, mode_b |-> Private]
  /\ scalar_ret.wire = Boolean_new(Private, 1)
  /\ Parity(1, 4) = 1
  /\ scalar_ret.num_private = size_in_bits

----------------------------------------------------------------------------
(* The phases of a call.                                                   *)

\* The blocks of the padded input that have been XORed into the state.
AbsorbedBlocks == Len(result) - Len(padded_blocks)

\* The phase of a call that has its padded blocks, as <<rank, index>>:
\* <<0, 0>> Empty, <<1, i>> Absorbing(block i), <<2, k>> Squeezing(iteration
\* k), <<3, 0>> Done.
Phase ==
  IF pc = "absorb" /\ AbsorbedBlocks = 0 THEN <<0, 0>>
  ELSE IF pc = "absorb" \/ (pc = "permute" /\ ret = "absorb") THEN <<1, AbsorbedBlocks>>
  ELSE IF pc = "done" THEN <<3, 0>>
  ELSE <<2, (Len(z) \div bitrate) + (IF pc = "squeeze" THEN 0 ELSE 1)>>

InPhases == pc \in {"absorb", "permute", "squeeze", "extend", "done"}

\* The one successor of a phase, or the phase itself.
PhaseStep(from, to, blocks, squeezed, wanted) ==
  \/ to = from
  \/ from = <<0, 0>> /\ to = <<1, 1>>
  \/ from[1] = 1 /\ from[2] < blocks /\ to = <<1, from[2] + 1>>
  \/ from[1] = 1 /\ from[2] = blocks /\ to = <<2, 1>>
  \/ from[1] = 2 /\ squeezed < wanted /\ to = <<2, from[2] + 1>>
  \/ from[1] = 2 /\ squeezed >= wanted /\ to = <<3, 0>>

\* C21: a call that has its padded blocks goes through Empty, Absorbing
\* (block 1) .. Absorbing(block n), Squeezing(iteration 1) .. and Done, each
\* step staying in its phase or moving to the next one; the blocks are
\* absorbed in the order of the padding and none is left when the squeeze
\* starts; the call fails only before the first phase, and from Empty on it
\* always ends in Done, with the truncated bits as output, and stays there.
C21_Phases ==
  /\ [][(InPhases =>
           /\ InPhases'
           /\ PhaseStep(Phase, Phase', Len(result), Len(z), VARIANT))
        /\ (pc' = "halted" => pc \in {"idle", "pad", "halted"})
        /\ (pc = "done" => UNCHANGED <<pc, output, s, z, perms>>)]_vars
  /\ [](InPhases =>
         /\ padded_blocks = SubSeq(result, AbsorbedBlocks + 1, Len(result))
         /\ Phase[1] >= 2 => padded_blocks = <<>>
         /\ Phase[1] = 1 => (Phase[2] >= 1 /\ Phase[2] <= Len(result))
         /\ pc = "done" => output = Take(z, VARIANT))
  /\ (pc = "absorb") ~> (pc = "done")

C21_Witness ==
  /\ pc = "done" /\ TYPE = 1 /\ VARIANT = 784 /\ Len(input) = 32 /\ Len(result) = 2
  /\ padded_blocks = <<>> /\ perms = 26 /\ Len(z) = 800 /\ output = Take(z, 784)

----------------------------------------------------------------------------
(* The content of the padding.                                             *)

\* The blocks one after the other.
RECURSIVE Concatenation(_)
Concatenation(blocks) ==
  IF blocks = <<>> THEN <<>> ELSE Head(blocks) \o Concatenation(Tail(blocks))

\* The values of the bits that follow the byte-aligned input.
SuffixValues == IF pad_type = 0 THEN <<1>> ELSE <<0, 1, 1, 0>>

\* The smallest number k >= 0 of bits after which a length is r - 1 modulo r.
SmallestFill(len, r) ==
  CHOOSE k \in 0..(r - 1) :
    /\ (len + k) % r = r - 1
    /\ \A j \in 0..(k - 1) : (len + j) % r # r - 1

\* C22: the blocks a padding function returns are, one after the other, the
\* input with every bit at its position, constant zeros up to the next
\* multiple of 8, the constant 1 (pad_keccak) or the constants 0, 1, 1, 0
\* (pad_sha3), the smallest number k >= 0 of constant zeros that brings the
\* length to r - 1 modulo r, and a constant 1; the fill loop ran k times,
\* and every block, the last one too, has exactly r bits.
C22_PaddingContent ==
  pad_pc = "done" =>
    LET r == pad_bitrate
        n == Len(pad_input)
        aligned == ((n + 7) \div 8) * 8
        suffixed == aligned + Len(SuffixValues)
        k == SmallestFill(suffixed, r)
        flat == Concatenation(result)
    IN /\ Len(flat) = suffixed + k + 1
       /\ \A i \in 1..Len(flat) :
            flat[i] = IF i <= n THEN pad_input[i]
                      ELSE IF i <= aligned THEN Boolean_constant(0)
                      ELSE IF i <= suffixed THEN Boolean_constant(SuffixValues[i - aligned])
                      ELSE IF i <= suffixed + k THEN Boolean_constant(0)
                      ELSE Boolean_constant(1)
       /\ fills = k
       /\ \A b \in 1..Len(result) : Len(result[b]) = r
       /\ Len(result) = (suffixed + k + 1) \div r

C22_Witness ==
  /\ pad_pc = "done" /\ pad_type = 1 /\ pad_bitrate = 24 /\ Len(pad_input) = 17
  /\ fills = 19 /\ Len(result) = 2
  /\ result[2][4] = Boolean_constant(0) /\ result[2][24] = Boolean_constant(1)

----------------------------------------------------------------------------
(* The XOR step of the absorb phase.                                       *)

\* The blocks of the padded input of the call.
PaddedBlocks == pad(TYPE, input, bitrate, debug).blocks

\* C23: the XOR step of a block sets state bit j to the XOR of state bit j
\* and block bit j for the bitrate's first bits and leaves the other bits,
\* the capacity, as they are, wire for wire; the state starts as
\* PERMUTATION_WIDTH constant zeros, so after the first XOR step it is the
\* first block, wire for wire, followed by constant zeros.
C23_AbsorbXor ==
  /\ [][(pc = "absorb" /\ pc' = "permute") =>
          /\ Len(Head(padded_blocks)) = bitrate
          /\ Len(s') = PERMUTATION_WIDTH
          /\ \A j \in 1..bitrate :
               eject_value(s'[j])
                 = (eject_value(s[j]) + eject_value(Head(padded_blocks)[j])) % 2
          /\ \A j \in (bitrate + 1)..PERMUTATION_WIDTH : s'[j] = s[j]]_kvars
  /\ [](/\ (pc = "absorb" /\ perms = 0) =>
             (/\ Len(s) = PERMUTATION_WIDTH
              /\ \A j \in 1..PERMUTATION_WIDTH : s[j] = Boolean_constant(0))
        /\ (pc = "permute" /\ ret = "absorb" /\ perms = 0) =>
             s = PaddedBlocks[1]
                 \o [j \in 1..(PERMUTATION_WIDTH - bitrate) |-> Boolean_constant(0)])

C23_Witness ==
  /\ pc = "permute" /\ ret = "absorb" /\ perms = 1 /\ round_index = 0
  /\ TYPE = 0 /\ VARIANT = 256 /\ Len(input) = 1088 /\ padded_blocks = <<>>
  /\ Len(s) = PERMUTATION_WIDTH
  /\ \E j \in 1089..1600 : eject_value(s[j]) = 1

----------------------------------------------------------------------------
(* The number of permutations of a call.                                   *)

\* The number of blocks the padding makes of an input of len bits.
BlockCount(T, len, r) == (((((len + 7) \div 8) * 8) + (IF T = 0 THEN 1 ELSE 4)) \div r) + 1

\* max(0, ceil(VARIANT / r) - 1)
SqueezePermutations(V, r) ==
  IF ((V + r - 1) \div r) - 1 > 0 THEN ((V + r - 1) \div r) - 1 ELSE 0

\* C24: a call that returns has called the permutation n + max(0,
\* ceil(VARIANT / r) - 1) times, n being the number of padded blocks, which
\* the length of the input and the hasher determine: once after the XOR of
\* each block, none between the last block and the first chunk of the
\* output, one for each further chunk.  For the named hashers that is n.
C24_Permutations ==
  LET n == BlockCount(TYPE, Len(input), bitrate) IN
  /\ (Called /\ pc # "halted") => n = Len(PaddedBlocks)
  /\ pc = "absorb" => perms = n - Len(padded_blocks)
  /\ (pc = "permute" /\ ret = "absorb") => perms = n - Len(padded_blocks) - 1
  /\ pc = "squeeze" => perms = n + (Len(z) \div bitrate) - 1
  /\ (pc = "extend" \/ (pc = "permute" /\ ret = "extend")) =>
       perms = n + (Len(z) \div bitrate) - (IF pc = "extend" THEN 0 ELSE 1)
  /\ pc = "done" =>
       /\ perms = n + SqueezePermutations(VARIANT, bitrate)
       /\ Named => (VARIANT <= bitrate /\ perms = n)

C24_Witness ==
  /\ pc = "done" /\ TYPE = 0 /\ VARIANT = 536 /\ bitrate = 528 /\ Len(input) = 1
  /\ perms = 2 /\ Len(z) = 1056 /\ Len(output) = 536

----------------------------------------------------------------------------
(* Keccak::permutation_f and Keccak::round, statement by statement: the    *)
(* partition into lanes, then for each round constant theta, rho and pi,   *)
(* chi and iota, then the flattening.                                      *)

\* input.chunks(64).map(U64::from_bits_le).collect(); the two assertions on
\* the lengths are debug assertions.
PermutationCall(bits) ==
  /\ f_pc = "idle"
  /\ f_input' = bits
  /\ IF debug /\ (Len(bits) # PERMUTATION_WIDTH \/ Len(round_constants) # NUM_ROUNDS)
     THEN f_pc' = "panicked" /\ f_a' = <<>>
     ELSE f_pc' = "loop" /\ f_a' = chunks(bits, 64)
  /\ f_round' = 0
  /\ UNCHANGED <<f_c, f_d, f_a_1, f_a_2, f_a_3, f_output, rot_call, rot_ret>>
  /\ UNCHANGED <<kvars, pvars, svars, fvars, cvars>>

\* The next round constant is taken and round is entered: theta.
Theta ==
  /\ f_pc = "loop"
  /\ f_round < Min(NUM_ROUNDS, Len(round_constants))
  /\ f_c' = theta_c(f_a)
  /\ f_d' = theta_d(theta_c(f_a))
  /\ f_a_1' = theta_a(f_a, theta_d(theta_c(f_a)))
  /\ f_pc' = "rho_pi"
  /\ UNCHANGED <<f_input, f_round, f_a, f_a_2, f_a_3, f_output, rot_call, rot_ret>>
  /\ UNCHANGED <<kvars, pvars, svars, fvars, cvars>>

\* let mut a_2 = a_1.clone(), and the loop that writes its lanes.
RhoPi ==
  /\ f_pc = "rho_pi"
  /\ f_a_2' = rho_pi(f_a_1, rotl)
  /\ f_pc' = "chi"
  /\ UNCHANGED <<f_input, f_round, f_a, f_c, f_d, f_a_1, f_a_3, f_output, rot_call, rot_ret>>
  /\ UNCHANGED <<kvars, pvars, svars, fvars, cvars>>

Chi ==
  /\ f_pc = "chi"
  /\ f_a_3' = chi(f_a_2)
  /\ f_pc' = "iota"
  /\ UNCHANGED <<f_input, f_round, f_a, f_c, f_d, f_a_1, f_a_2, f_output, rot_call, rot_ret>>
  /\ UNCHANGED <<kvars, pvars, svars, fvars, cvars>>

\* (A variant that always takes the first round constant.)
Iota_first ==
  /\ f_pc = "iota"
  /\ f_a_3' = iota(f_a_3, At(round_constants, 0))
  /\ f_a' = iota(f_a_3, At(round_constants, 0))
  /\ f_round' = f_round + 1
  /\ f_pc' = "loop"
  /\ UNCHANGED <<f_input, f_c, f_d, f_a_1, f_a_2, f_output, rot_call, rot_ret>>
  /\ UNCHANGED <<kvars, pvars, svars, fvars, cvars>>

\* a_3[0] = &a_3[0] ^ round_constant; round returns a_3, which permutation_f
\* assigns to a.
Iota ==
  /\ f_pc = "iota"
  /\ f_a_3' = iota(f_a_3, At(round_constants, f_round))
  /\ f_a' = iota(f_a_3, At(round_constants, f_round))
  /\ f_round' = f_round + 1
  /\ f_pc' = "loop"
  /\ UNCHANGED <<f_input, f_c, f_d, f_a_1, f_a_2, f_output, rot_call, rot_ret>>
  /\ UNCHANGED <<kvars, pvars, svars, fvars, cvars>>

\* a.into_iter().flat_map(|e| e.to_bits_le()).collect()
PermutationOutput ==
  /\ f_pc = "loop"
  /\ f_round = Min(NUM_ROUNDS, Len(round_constants))
  /\ f_output' = Flatten(f_a)
  /\ f_pc' = "done"
  /\ UNCHANGED <<f_input, f_round, f_a, f_c, f_d, f_a_1, f_a_2, f_a_3, rot_call, rot_ret>>
  /\ UNCHANGED <<kvars, pvars, svars, fvars, cvars>>

\* The positions, from 1, of the bits that are one in the sparse states.
SparseBits == {1, 64, 65, 321, 1000, 1600}

\* States of PERMUTATION_WIDTH bits: one private one among constant zeros,
\* all private with ones at every third bit, and public, private and
\* constant bits by turns with ones at irregular positions.
PermutationInputs ==
  {[k \in 1..PERMUTATION_WIDTH |->
      IF k = b THEN Boolean_new(Private, 1) ELSE Boolean_constant(0)] : b \in SparseBits}
  \cup {[k \in 1..PERMUTATION_WIDTH |-> Boolean_new(Private, IF k % 3 = 1 THEN 1 ELSE 0)],
        [k \in 1..PERMUTATION_WIDTH |->
           Boolean_new((k * k) % 3, IF (k * k) % 7 \in {1, 2} THEN 1 ELSE 0)]}

InitPermutation == TYPE = 0 /\ VARIANT = 0 /\ Start /\ ~debug

NextPermutation ==
  \/ \E bits \in PermutationInputs : PermutationCall(Collect(bits))
  \/ Theta
  \/ RhoPi
  \/ Chi
  \/ Iota
  \/ PermutationOutput

SpecPermutation == InitPermutation /\ [][NextPermutation]_vars

----------------------------------------------------------------------------
(* Keccak::rotate_left on its own.                                         *)

\* Lanes with one private one among constant zeros, and a lane of public,
\* private and constant bits with ones at irregular positions.
RotateInputs ==
  {[k \in 1..64 |-> IF k = b THEN Boolean_new(Private, 1) ELSE Boolean_constant(0)] :
     b \in 1..64}
  \cup {[k \in 1..64 |-> Boolean_new((k * k) % 3, IF (k * k) % 7 \in {1, 2} THEN 1 ELSE 0)]}

RotateLeft ==
  /\ rot_call.value = <<>>
  /\ \E value \in RotateInputs, n \in 0..63 :
       /\ rot_call' = [value |-> Collect(value), n |-> n]
       /\ rot_ret' = rotate_left(Collect(value), n)
  /\ UNCHANGED <<f_pc, f_input, f_round, f_a, f_c, f_d, f_a_1, f_a_2, f_a_3, f_output>>
  /\ UNCHANGED <<kvars, pvars, svars, fvars, cvars>>

InitRotate == TYPE = 0 /\ VARIANT = 0 /\ Start /\ ~debug

NextRotate == RotateLeft

SpecRotate == InitRotate /\ [][NextRotate]_vars

----------------------------------------------------------------------------
(* The steps of the round function.                                        *)

\* Bit j of the lane at (x, y) of a matrix of lanes stored at x + 5y.
Bit(lanes, x, y, j) == eject_value(lanes[(x + (5 * y)) + 1][j + 1])

InRound == f_pc \in {"rho_pi", "chi", "iota"}

\* The matrix has 25 lanes of 64 bits.
Shaped(lanes) == Len(lanes) = 25 /\ \A k \in 1..25 : Len(lanes[k]) = 64

\* C25: in theta, C[x] is the XOR of the five lanes a[x, 0..4]; D[x] is
\* C[(x - 1) mod 5] XOR C[(x + 1) mod 5] rotated left by one (bit j of the
\* rotated lane is bit j - 1 mod 64 of the lane); and the lane of the output
\* at x + 5y is a[x, y] XOR D[x].
C25_Theta ==
  InRound =>
    /\ Len(f_c) = 5 /\ Len(f_d) = 5 /\ Shaped(f_a_1)
    /\ \A x \in 0..4, j \in 0..63 :
         /\ eject_value(f_c[x + 1][j + 1])
              = (Bit(f_a, x, 0, j) + Bit(f_a, x, 1, j) + Bit(f_a, x, 2, j)
                 + Bit(f_a, x, 3, j) + Bit(f_a, x, 4, j)) % 2
         /\ eject_value(f_d[x + 1][j + 1])
              = (eject_value(f_c[((x + 4) % 5) + 1][j + 1])
                 + eject_value(f_c[((x + 1) % 5) + 1][((j + 63) % 64) + 1])) % 2
         /\ \A y \in 0..4 :
              Bit(f_a_1, x, y, j) = (Bit(f_a, x, y, j) + eject_value(f_d[x + 1][j + 1])) % 2

C25_Witness ==
  /\ f_pc = "rho_pi" /\ f_round = 0
  /\ f_input[1] = Boolean_new(Private, 1) /\ f_input[2] = Boolean_constant(0)
  /\ Bit(f_a_1, 0, 0, 0) = 1 /\ Bit(f_a_1, 1, 3, 0) = 1 /\ Bit(f_a_1, 4, 2, 1) = 1
  /\ Bit(f_a_1, 4, 2, 0) = 0 /\ Bit(f_a_1, 4, 2, 63) = 0

\* The index of the lane that rho and pi write from the lane at x + 5y.
Destination(x, y) == y + (5 * (((2 * x) + (3 * y)) % 5))

\* C26: rho and pi write, for every (x, y), the lane of the theta output at
\* x + 5y, rotated by the offset of index x + 5y (to the left by the rho
\* offset, which is the amount 64 less the rho offset in the sense of
\* rotate_left), to the index y + 5 * ((2x + 3y) mod 5); the indices written
\* are all 25, each once, so that every lane of the output is a rotated
\* lane of the theta output and none is left of the copy.
C26_RhoPi ==
  f_pc \in {"chi", "iota"} =>
    /\ Shaped(f_a_2)
    /\ {Destination(x, y) : x \in 0..4, y \in 0..4} = 0..24
    /\ \A x \in 0..4, y \in 0..4, xx \in 0..4, yy \in 0..4 :
         Destination(x, y) = Destination(xx, yy) => (x = xx /\ y = yy)
    /\ \A x \in 0..4, y \in 0..4, j \in 0..63 :
         /\ f_a_2[Destination(x, y) + 1][j + 1]
              = f_a_1[(x + (5 * y)) + 1][((j + rotl[(x + (5 * y)) + 1]) % 64) + 1]
         /\ f_a_2[Destination(x, y) + 1][((j + RHO_OFFSETS[(x + (5 * y)) + 1]) % 64) + 1]
              = f_a_1[(x + (5 * y)) + 1][j + 1]

C26_Witness ==
  /\ f_pc = "chi" /\ f_round = 0
  /\ f_input[1] = Boolean_new(Private, 1) /\ f_input[2] = Boolean_constant(0)
  /\ Bit(f_a_1, 1, 0, 0) = 1 /\ Bit(f_a_2, 0, 2, 1) = 1 /\ Bit(f_a_2, 1, 0, 0) = 0

\* C27: in chi, the lane of the output at (x, y) is b[x, y] XOR ((NOT
\* b[(x + 1) mod 5, y]) AND b[(x + 2) mod 5, y]), where b is the whole
\* output of rho and pi: no operand is a lane that chi has written.
C27_Chi ==
  f_pc = "iota" =>
    /\ Shaped(f_a_3)
    /\ \A x \in 0..4, y \in 0..4, j \in 0..63 :
         Bit(f_a_3, x, y, j)
           = (Bit(f_a_2, x, y, j)
              + ((1 - Bit(f_a_2, (x + 1) % 5, y, j)) * Bit(f_a_2, (x + 2) % 5, y, j))) % 2

C27_Witness ==
  /\ f_pc = "iota" /\ f_round = 0
  /\ f_input[1] = Boolean_new(Private, 1) /\ f_input[2] = Boolean_new(Private, 0)
  /\ \E x \in 0..4, y \in 0..4, j \in 0..63 :
       /\ Bit(f_a_2, x, y, j) = 1 /\ Bit(f_a_2, (x + 1) % 5, y, j) = 0
       /\ Bit(f_a_2, (x + 2) % 5, y, j) = 1 /\ Bit(f_a_3, x, y, j) = 0
       /\ Bit(f_a_3, (x + 2) % 5, y, j) # Bit(f_a_2, (x + 2) % 5, y, j)

\* C28: the permutation applies round NUM_ROUNDS times, round i with the
\* round constant i of the table; the iota step of a round XORs that constant
\* into lane (0, 0) and leaves the other 24 lanes of the chi output as they
\* are; lane x + 5y is bits [64k, 64k + 64) of the state, k = x + 5y, and the
\* lanes are flattened in that order into an output of PERMUTATION_WIDTH bits.
C28_Permutation ==
  /\ [][(f_pc = "iota" /\ f_pc' = "loop") =>
          /\ f_round' = f_round + 1
          /\ f_round < NUM_ROUNDS
          /\ Shaped(f_a')
          /\ \A j \in 1..64 :
               eject_value(f_a'[1][j])
                 = (eject_value(f_a_3[1][j])
                    + (IF (j - 1) \in ROUND_CONSTANT_BITS[f_round + 1] THEN 1 ELSE 0)) % 2
          /\ \A k \in 2..25 : f_a'[k] = f_a_3[k]]_vars
  /\ [][(f_pc = "loop" /\ f_pc' = "rho_pi") => f_round < NUM_ROUNDS]_vars
  /\ []((f_pc = "loop" /\ f_round = 0) =>
          /\ Shaped(f_a)
          /\ \A k \in 0..24, j \in 0..63 : f_a[k + 1][j + 1] = f_input[((64 * k) + j) + 1])
  /\ [](f_pc = "done" =>
          /\ f_round = NUM_ROUNDS
          /\ Len(f_output) = PERMUTATION_WIDTH
          /\ \A k \in 0..24, j \in 0..63 : f_output[((64 * k) + j) + 1] = f_a[k + 1][j + 1]
          /\ Values(f_output) = ref_keccak_f(Values(f_input)))

C28_Witness ==
  /\ f_pc = "done" /\ f_round = NUM_ROUNDS
  /\ f_input[1] = Boolean_new(Private, 1) /\ f_input[2] = Boolean_constant(0)
  /\ Len(f_output) = PERMUTATION_WIDTH
  /\ Values(f_output) # Values(f_input)
  /\ \A k \in 2..25 : f_a[k] = f_a_3[k]
  /\ f_a_3 # chi(f_a_2)

\* C29 (as stated): rotate_left(value, n), 0 <= n <= 63, puts input bit i at
\* output bit (i + n) mod 64 for every i, keeps 64 bits, and is the identity
\* for n = 0.
C29_RotateLeft ==
  rot_call.value # <<>> =>
    /\ Len(rot_ret) = 64
    /\ \A i \in 0..63 : rot_ret[((i + rot_call.n) % 64) + 1] = rot_call.value[i + 1]
    /\ (rot_call.n = 0 => rot_ret = rot_call.value)

\* C29 (amended): rotate_left(value, n), 0 <= n <= 63, puts input bit
\* (i + n) mod 64 at output bit i for every i, which is the cyclic left
\* rotation of the lane by (64 - n) mod 64 positions with bit 0 the least
\* significant bit; the lane keeps 64 bits and n = 0 is the identity.
C29_RotateLeftAmended ==
  rot_call.value # <<>> =>
    /\ Len(rot_call.value) = 64
    /\ Len(rot_ret) = 64
    /\ \A i \in 0..63 : rot_ret[i + 1] = rot_call.value[((i + rot_call.n) % 64) + 1]
    /\ \A i \in 0..63 :
         rot_ret[((i + ((64 - rot_call.n) % 64)) % 64) + 1] = rot_call.value[i + 1]
    /\ (rot_call.n = 0 => rot_ret = rot_call.value)

C29_Witness ==
  /\ rot_call.n = 63
  /\ Len(rot_call.value) = 64
  /\ rot_call.value[1] = Boolean_new(Private, 1)
  /\ rot_ret[2] = Boolean_new(Private, 1)
  /\ rot_ret[64] = Boolean_constant(0)
  /\ rot_ret[1] = Boolean_constant(0)

\* The maps of the five variants that hold the input ID as a key.
Holders(input_id) ==
  {m \in {"constant", "public", "private", "record", "external_record"} :
     input_id \in DOMAIN (CASE m = "constant" -> constant_map
                            [] m = "public" -> public_map
                            [] m = "private" -> private_map
                            [] m = "record" -> record_map
                            [] OTHER -> external_record_map)}

\* C30: after any sequence of inserts and removes, for every transition ID
\* of the ID map and every input ID listed for it, the reverse ID map has an
\* entry for the input ID and the input ID is a key of exactly one of the
\* constant, public, private, record and external-record maps, so get_inputs
\* of the transition ID does not fail.
C30_Consistent ==
  \A t \in DOMAIN id_map :
    /\ \A k \in 1..Len(id_map[t]) :
         /\ id_map[t][k] \in DOMAIN reverse_id_map
         /\ Cardinality(Holders(id_map[t][k])) = 1
    /\ get_inputs(Store, t).ok

\* A transition that is still stored lists an input ID that the removal of
\* another transition took out of the reverse ID map and of the constant map.
C30_Witness ==
  /\ last.op = "remove" /\ last.t = "t1"
  /\ last.inputs = <<Input_Constant(1, "plaintext")>>
  /\ "t2" \in DOMAIN id_map /\ id_map["t2"] = <<1>>
  /\ inserted["t2"] = <<Input_Constant(1, "plaintext")>>
  /\ 1 \notin DOMAIN reverse_id_map
  /\ Holders(1) = {}
  /\ get_inputs(Store, "t2") = Err

====
